---- MODULE Spec2Model ----
(***************************************************************************)
(* A model of librechat-dashboard.py: the system resource sampler          *)
(* (SystemMonitor), the service status reconciler (ServiceMonitor), the    *)
(* launch worker (ProcessRunner) and the stop paths of child processes.    *)
(* Every component has its own specification over the shared variables.    *)
(***************************************************************************)
EXTENDS Integers, Sequences, FiniteSets, TLC

VARIABLES
    \* ---- SystemMonitor (lines 100-135)
    sm_running,      \* self.running
    cpu_history,     \* self.cpu_history, a deque(maxlen=history_size)
    ram_history,     \* self.ram_history, a deque(maxlen=history_size)
    sm_stats,        \* the snapshot of the last stats_updated emission
    sm_pc,           \* run(): "loop" (at the while test) | "body" | "done" |
                     \* "crashed" (an exception left run())
    sm_seed,         \* which measurement stream the host produces
    cpu_measured,    \* every cpu sample measured so far, in order (history)
    ram_measured,    \* every ram sample measured so far, in order (history)
    kept,            \* a snapshot a consumer received and holds on to
    kept_orig,       \* the histories of that snapshot as they were received
    kept_mutated,    \* the consumer has modified the lists of that snapshot
    \* ---- ServiceMonitor (lines 138-293)
    svc_running,     \* self.running
    previous_status, \* self.previous_status by tracked name; None where the
                     \* dict has no such key
    svc_pc,          \* "top" | "loop" | "sleep" | "done" | "crashed"
    svc_i,           \* position in the two for loops of run(): 1..4, 5..6
    tick_names,      \* names of the status_updated emissions of this tick
    last,            \* the status_updated emission of the last step, or NoRecord
    step_logs,       \* the logs_ready emissions of the last step, in order
    step_emits,      \* the signals the last step emitted, in emission order
    step_pid_failed, \* the MainPID query of the last step failed (no answer)
    step_gap,        \* scen_gap before the last step, when it observed ScenService
    scen_obs,        \* statuses of ScenService at the ticks so far (history)
    scen_fetches,    \* cumulative logs_ready count of ScenService per tick
    scen_gap,        \* what ScenService was seen as since its last logs_ready
    man_obs,         \* statuses of ManScenService at the scenario's ticks so
                     \* far (history)
    \* ---- check_process on a given listener table (lines 237-277)
    world,           \* the listener table and process table being scanned
    cp_rec,          \* [name, stats] returned by check_process, or NoRecord
    \* ---- launch workers and stop paths (lines 27-97, 296-335, 482-499)
    st_path,         \* which stop path and worker the behaviour is about
    ch_state,        \* the child process: "none" | "running" | "exited"
    ch_responsive,   \* the child exits when it receives SIGTERM
    pipe_held,       \* descendants of the child hold its stdout pipe open
    ch_term,         \* SIGTERM was delivered to the running child
    ch_kill,         \* SIGKILL was delivered to the running child
    ch_code,         \* the child's return code once it has exited
    ch_lines,        \* number of lines the child has written to its stdout
    wk_pc,           \* run(): "idle"|"spawn"|"reading"|"waiting"|"done"
    wk_process,      \* self.process is set
    wk_running,      \* PgAdminManager.running
    wk_events,       \* the notifications run() has emitted, in order
    sig_log,         \* the terminate() and kill() calls made, in order
    st_pc,           \* the stop call: "idle"|"grace"|"expired"|"done", and
                     \* "joined" once the caller's wait() on the thread returned
    st_grace,        \* seconds waited in wait(timeout=5)
    st_call,         \* what the current (or last) stop call has done
    st_calls,        \* number of stop calls begun
    \* ---- uptime formatting (lines 222-232, 261-270)
    fmt_in,          \* the duration being formatted, in seconds
    fmt_path,        \* which of the two formatting sites produced fmt_out
    fmt_out,         \* the uptime string produced, or NA before any was
    \* ---- one ServiceCard of an externally-launched service (lines 338-503),
    \* ---- the Start Everything timers and the privileged handlers
    cd_name,         \* self.name: "librechat", "rag_api", or the systemd card
                     \* followed
    cd_path_exists,  \* the service's source directory exists
    cd_start_enabled,\* self.start_btn.isEnabled()
    cd_stop_enabled, \* self.stop_btn.isEnabled()
    cd_is_running,   \* self.is_running
    cd_workers,      \* the ProcessRunner threads created for the card, in
                     \* order: "starting" | "running" | "finished"; the last
                     \* one is self.process_thread
    cd_queue,        \* signals of the workers queued for the UI thread
    cd_listening,    \* a process of the service listens on its port
    cd_overlap,      \* a worker was created while an earlier one was running
    tm_pc,           \* the timers of start_everything: "idle" | "manual" |
                     \* "librechat"
    se_log,          \* what the last start_everything has done so far, in
                     \* order: "systemd", then the cards asked to launch
    pk_last,         \* the last invocation of a pkexec handler
    \* ---- PgAdminTab and its PgAdminManager (lines 27-97, 841-884)
    pg_script_exists,\* ~/.local/src/pgadmin/bin/pgadmin4 exists
    pg_thread,       \* PgAdminManager.run: "none" | "started" | "reading" |
                     \* "finished"
    pg_child,        \* the pgAdmin process: "none" | "running" | "exited"
    pg_spawned,      \* number of processes spawned by Popen (line 51)
    pg_url_seen,     \* status_updated(True, url) was emitted by this run
    pg_status_emits, \* status_updated(False, "") emissions of this run
    pg_queue,        \* signals of the manager queued for the UI thread
    pg_console,      \* the texts appended to the console, by kind
    pg_start_enabled,\* PgAdminTab.start_btn.isEnabled()
    pg_stop_enabled, \* PgAdminTab.stop_btn.isEnabled()
    pg_open_enabled, \* PgAdminTab.open_browser_btn.isEnabled()
    pg_starts,       \* number of PgAdminManager objects created
    pg_running,      \* number of PgAdminManager threads started whose run()
                     \* has not returned
    pg_warnings,     \* number of "Already Running" warnings shown (line 844)
    \* ---- LibreChatDashboard.closeEvent (lines 1205-1222)
    ce_pc            \* "open" | "wait_sys" | "wait_svc" | "accepted"

sysvars == <<sm_running, cpu_history, ram_history, sm_stats, sm_pc, sm_seed,
             cpu_measured, ram_measured, kept, kept_orig, kept_mutated>>

svcvars == <<svc_running, previous_status, svc_pc, svc_i, tick_names, last,
             step_logs, step_emits, step_pid_failed, step_gap,
             scen_obs, scen_fetches, scen_gap, man_obs>>

cpvars == <<world, cp_rec>>

stopvars == <<st_path, ch_state, ch_responsive, pipe_held, ch_term, ch_kill,
              ch_code, ch_lines, wk_pc, wk_process, wk_running, wk_events,
              sig_log, st_pc, st_grace, st_call, st_calls>>

fmtvars == <<fmt_in, fmt_path, fmt_out>>

cardvars == <<cd_name, cd_path_exists, cd_start_enabled, cd_stop_enabled,
              cd_is_running, cd_workers, cd_queue, cd_listening, cd_overlap,
              tm_pc, se_log, pk_last>>

pgvars == <<pg_script_exists, pg_thread, pg_child, pg_spawned, pg_url_seen,
            pg_status_emits, pg_queue, pg_console, pg_start_enabled,
            pg_stop_enabled, pg_open_enabled, pg_starts, pg_running,
            pg_warnings>>

closevars == <<ce_pc>>

uivars == <<fmtvars, cardvars, pgvars, closevars>>

corevars == <<sysvars, svcvars, cpvars, stopvars>>

vars == <<corevars, uivars>>

\* ------------------------------------------------------------------------
\* Generic helpers
\* ------------------------------------------------------------------------
None == "None"

Min(a, b) == IF a < b THEN a ELSE b

\* The last n elements of s (all of s when it is shorter).
LastN(s, n) == IF Len(s) <= n THEN s ELSE SubSeq(s, Len(s) - n + 1, Len(s))

\* ------------------------------------------------------------------------
\* SystemMonitor
\* ------------------------------------------------------------------------
history_size == 60

\* Bounds of the sampler model.
MaxSysTicks == 62
MaxSeed == 1

\* collections.deque(maxlen=n).append(x): at capacity the leftmost (oldest)
\* element is discarded, then x is appended on the right.
DequeAppendKeepOldest(d, x, maxlen) ==
    IF Len(d) >= maxlen THEN d ELSE Append(d, x)

DequeAppend(d, x, maxlen) ==
    IF Len(d) >= maxlen THEN Append(Tail(d), x) ELSE Append(d, x)

\* psutil.cpu_percent(interval=1) and psutil.virtual_memory().percent at the
\* n-th tick of measurement stream seed: values in 0..100, pairwise different
\* over any window of 101 consecutive ticks.
CpuReading(seed, n) == (seed * 7 + n * 3) % 101
RamReading(seed, n) == (seed * 5 + n * 11 + 1) % 101

\* list(d): a new list object holding the elements of d.  A list is modelled
\* with its identity: alias tells whether it is the sampler's own buffer (its
\* contents are then the buffer's), items holds the contents of a list that is
\* an object of its own.
PyListAlias(d) == [alias |-> TRUE, items |-> <<>>]

PyList(d) == [alias |-> FALSE, items |-> d]

\* The contents of a list object, own being the sampler's buffer.
Items(l, own) == IF l.alias THEN own ELSE l.items

NoStats == [cpu_percent |-> -1, ram_percent |-> -1,
            cpu_history |-> PyList(<<>>), ram_history |-> PyList(<<>>)]

\* No snapshot is held by the consumer.
NoKept == [tick |-> 0, cpu_history |-> PyList(<<>>),
           ram_history |-> PyList(<<>>)]

NoOrig == [cpu_history |-> <<>>, ram_history |-> <<>>]

\* What a consumer can do to a list it received.
ListMutations == {"clear", "append"}

Mutate(items, how) ==
    IF how = "clear" THEN <<>> ELSE Append(items, 255)

SysInit ==
    /\ sm_running = TRUE
    /\ cpu_history = <<>>
    /\ ram_history = <<>>
    /\ sm_stats = NoStats
    /\ sm_pc = "loop"
    /\ sm_seed \in 0..MaxSeed
    /\ cpu_measured = <<>>
    /\ ram_measured = <<>>
    /\ kept = NoKept
    /\ kept_orig = NoOrig
    /\ kept_mutated = FALSE

\* The sampler as constructed, on measurement stream 0: the sampler's state in
\* the specifications of the other components, which never run it.
SysIdle ==
    /\ SysInit
    /\ sm_seed = 0

\* `while self.running` (lines 112 and 150): the flag as read at the top of
\* the loop.
LoopConditionIgnoresFlag(running) == TRUE

LoopCondition(running) == running

\* The while condition of line 112 read as true: an iteration begins.
SysLoopTop ==
    /\ sm_pc = "loop"
    /\ LoopCondition(sm_running)
    /\ Len(cpu_measured) < MaxSysTicks
    /\ sm_pc' = "body"
    /\ UNCHANGED <<sm_running, cpu_history, ram_history, sm_stats, sm_seed,
                   cpu_measured, ram_measured, kept, kept_orig, kept_mutated>>
    /\ UNCHANGED <<svcvars, cpvars, stopvars, uivars>>

\* The body of the while loop of SystemMonitor.run (lines 113-132).
SysTick ==
    /\ sm_pc = "body"
    /\ LET n == Len(cpu_measured) + 1
           cpu_percent == CpuReading(sm_seed, n)
           ram_percent == RamReading(sm_seed, n)
           ch == DequeAppend(cpu_history, cpu_percent, history_size)
           rh == DequeAppend(ram_history, ram_percent, history_size)
       IN  /\ cpu_history' = ch
           /\ ram_history' = rh
           /\ cpu_measured' = Append(cpu_measured, cpu_percent)
           /\ ram_measured' = Append(ram_measured, ram_percent)
           /\ sm_stats' = [cpu_percent |-> cpu_percent,
                           ram_percent |-> ram_percent,
                           cpu_history |-> PyList(ch),
                           ram_history |-> PyList(rh)]
    /\ sm_pc' = "loop"
    /\ UNCHANGED <<sm_running, sm_seed, kept, kept_orig, kept_mutated>>
    /\ UNCHANGED <<svcvars, cpvars, stopvars, uivars>>

\* One of the three reads of lines 113-115 raises (for instance
\* psutil.disk_usage('/') with OSError): nothing was appended yet, run() has no
\* handler, and the exception leaves run().
SysTickFails ==
    /\ sm_pc = "body"
    /\ sm_pc' = "crashed"
    /\ UNCHANGED <<sm_running, cpu_history, ram_history, sm_stats, sm_seed,
                   cpu_measured, ram_measured, kept, kept_orig, kept_mutated>>
    /\ UNCHANGED <<svcvars, cpvars, stopvars, uivars>>

\* The loop condition read as false: run() returns (line 112).
SysExit ==
    /\ sm_pc = "loop"
    /\ ~LoopCondition(sm_running)
    /\ sm_pc' = "done"
    /\ UNCHANGED <<sm_running, cpu_history, ram_history, sm_stats, sm_seed,
                   cpu_measured, ram_measured, kept, kept_orig, kept_mutated>>
    /\ UNCHANGED <<svcvars, cpvars, stopvars, uivars>>

\* SystemMonitor.stop (lines 134-135), called from the UI thread.
SysStop ==
    /\ sm_running
    /\ sm_running' = FALSE
    /\ UNCHANGED <<cpu_history, ram_history, sm_stats, sm_pc, sm_seed,
                   cpu_measured, ram_measured, kept, kept_orig, kept_mutated>>
    /\ UNCHANGED <<svcvars, cpvars, stopvars, uivars>>

\* A consumer of stats_updated (update_system_stats, line 1089) holds on to
\* the dict it was handed: the lists in it are the objects built at lines
\* 128-129.
ConsumerKeeps ==
    /\ Len(cpu_measured) > 0
    /\ kept.tick # Len(cpu_measured)
    /\ kept' = [tick |-> Len(cpu_measured),
                cpu_history |-> sm_stats.cpu_history,
                ram_history |-> sm_stats.ram_history]
    /\ kept_orig' = [cpu_history |-> Items(sm_stats.cpu_history, cpu_history),
                     ram_history |-> Items(sm_stats.ram_history, ram_history)]
    /\ kept_mutated' = FALSE
    /\ UNCHANGED <<sm_running, cpu_history, ram_history, sm_stats, sm_pc,
                   sm_seed, cpu_measured, ram_measured>>
    /\ UNCHANGED <<svcvars, cpvars, stopvars, uivars>>

\* The consumer modifies the two lists of the snapshot it holds.  A list that
\* is the sampler's own buffer is modified in the sampler.
ConsumerMutates ==
    /\ kept # NoKept
    /\ ~kept_mutated
    /\ \E how \in ListMutations :
         /\ kept' = [kept EXCEPT
                 !.cpu_history.items =
                     IF kept.cpu_history.alias THEN @ ELSE Mutate(@, how),
                 !.ram_history.items =
                     IF kept.ram_history.alias THEN @ ELSE Mutate(@, how)]
         /\ cpu_history' = IF kept.cpu_history.alias
                           THEN Mutate(cpu_history, how) ELSE cpu_history
         /\ ram_history' = IF kept.ram_history.alias
                           THEN Mutate(ram_history, how) ELSE ram_history
    /\ kept_mutated' = TRUE
    /\ UNCHANGED <<sm_running, sm_stats, sm_pc, sm_seed, cpu_measured,
                   ram_measured, kept_orig>>
    /\ UNCHANGED <<svcvars, cpvars, stopvars, uivars>>

SysNext ==
    SysLoopTop \/ SysTick \/ SysTickFails \/ SysExit \/ SysStop \/ ConsumerKeeps
        \/ ConsumerMutates

\* ------------------------------------------------------------------------
\* ServiceMonitor: external queries and their outcomes
\* ------------------------------------------------------------------------
\* The two service lists of ServiceMonitor.run (lines 152 and 184).
SystemdServicesReversed == <<"ollama", "meilisearch", "postgresql", "mongodb">>

SystemdServices == <<"mongodb", "postgresql", "meilisearch", "ollama">>
ManualProcesses ==
    << [name |-> "librechat", port |-> 3080, cmd_filter |-> "node"],
       [name |-> "rag_api", port |-> 8000, cmd_filter |-> "uvicorn"] >>

NumSystemd == Len(SystemdServices)
NumTracked == Len(SystemdServices) + Len(ManualProcesses)

SystemdSet == {SystemdServices[i] : i \in 1..Len(SystemdServices)}

ManualSet == {ManualProcesses[i].name : i \in 1..Len(ManualProcesses)}

TrackedNames ==
    [i \in 1..NumTracked |->
        IF i <= NumSystemd THEN SystemdServices[i]
        ELSE ManualProcesses[i - NumSystemd].name]

\* Python's None in the pid field of a record.
NullPid == -1

\* The value of a call whose exception was not caught by the callee.
Raised == "<raised>"

\* A query that the step did not make.
NotCalled == [kind |-> "notcalled"]

\* str.strip(): leading and trailing whitespace is removed.
Whitespace == {" ", "\n", "\t"}

RECURSIVE LStrip(_)
LStrip(s) ==
    IF s # <<>> /\ Head(s) \in Whitespace THEN LStrip(Tail(s)) ELSE s

RECURSIVE RStrip(_)
RStrip(s) ==
    IF s # <<>> /\ s[Len(s)] \in Whitespace
    THEN RStrip(SubSeq(s, 1, Len(s) - 1)) ELSE s

Strip(s) == RStrip(LStrip(s))

\* The text of a stripped one-word output ("" when nothing is left).
Text(s) == IF s = <<>> THEN "" ELSE s[1]

\* subprocess.run(['systemctl', 'is-active', service], timeout=2): the unit's
\* ActiveState on stdout, or an exception (timeout, systemctl not runnable).
IsActiveOutcomes ==
    { [kind |-> "ok", stdout |-> <<w, "\n">>] :
          w \in {"active", "inactive", "failed", "activating"} }
    \cup { [kind |-> "raise"] }

\* check_systemd_service (lines 190-198).
check_systemd_service_uncaught(o) ==
    IF o.kind = "ok" THEN Text(Strip(o.stdout)) ELSE Raised

check_systemd_service(o) ==
    IF o.kind = "ok" THEN Text(Strip(o.stdout)) ELSE "unknown"

\* subprocess.run(['systemctl', 'show', service, '--property=MainPID']):
\* "MainPID=<n>" (n = 0 when the unit has no main process), an output without
\* "=", an output whose value is no number, or an exception.
ShowPidOutcomes ==
    { [kind |-> "ok", nparts |-> 2, isnum |-> TRUE, value |-> 4242],
      [kind |-> "ok", nparts |-> 2, isnum |-> TRUE, value |-> 0],
      [kind |-> "ok", nparts |-> 1, isnum |-> FALSE, value |-> 0],
      [kind |-> "raise", nparts |-> 0, isnum |-> FALSE, value |-> 0] }

\* get_service_pid (lines 200-210).
get_service_pid(o) ==
    IF o.kind # "ok" THEN NullPid                \* except: return None
    ELSE IF o.nparts < 2 THEN NullPid            \* split('=')[1]: IndexError
    ELSE IF ~o.isnum THEN NullPid                \* int(pid_str): ValueError
    ELSE IF o.value > 0 THEN o.value ELSE NullPid

\* The query gave no MainPID at all (as opposed to MainPID=0).
ShowPidFailed(o) == o.kind # "ok" \/ o.nparts < 2 \/ ~o.isnum

\* Uptime strings: "{a}d {b}h", "{a}h {b}m", "{a}m" and "N/A".
NA == [fmt |-> "N/A", a |-> 0, b |-> 0]

\* The formatting of a timedelta (days, seconds) at lines 223-232 and 263-270.
FormatUptimeHoursFirst(days, seconds) ==
    LET hours == seconds \div 3600
        minutes == (seconds % 3600) \div 60
    IN  IF hours > 0 THEN [fmt |-> "hm", a |-> hours, b |-> minutes]
        ELSE IF days > 0 THEN [fmt |-> "dh", a |-> days, b |-> hours]
        ELSE [fmt |-> "m", a |-> minutes, b |-> 0]

FormatUptime(days, seconds) ==
    LET hours == seconds \div 3600
        remainder == seconds % 3600
        minutes == remainder \div 60
    IN  IF days > 0 THEN [fmt |-> "dh", a |-> days, b |-> hours]
        ELSE IF hours > 0 THEN [fmt |-> "hm", a |-> hours, b |-> minutes]
        ELSE [fmt |-> "m", a |-> minutes, b |-> 0]

\* systemctl show --property=ActiveEnterTimestamp: a timestamp that parses
\* (the service has been active for `days`, `seconds`), an empty timestamp,
\* or an exception (timeout, no "=", a time zone strptime does not know).
UptimeOutcomes ==
    { [kind |-> "ok", days |-> 0, seconds |-> 5400],
      [kind |-> "empty", days |-> 0, seconds |-> 0],
      [kind |-> "raise", days |-> 0, seconds |-> 0] }

\* get_service_uptime (lines 212-235).
get_service_uptime(o) ==
    IF o.kind = "ok" THEN FormatUptime(o.days, o.seconds)
    ELSE NA

\* journalctl -u service -n 10 --no-pager, timeout=5.
LogOutcomes == { [kind |-> "ok"], [kind |-> "raise"] }

\* get_systemd_logs (lines 279-290): the journal text, or the error message.
get_systemd_logs_uncaught(o) ==
    IF o.kind = "ok" THEN "logs" ELSE Raised

get_systemd_logs(o) ==
    IF o.kind = "ok" THEN "logs" ELSE "Could not fetch logs"

\* psutil.Process(pid), cpu_percent(interval=0.1), memory_info() at lines
\* 175-177: all succeed, or one of them raises (the process is gone).
ProcStatOutcomes ==
    { [kind |-> k, cpu |-> 7, rss_mb |-> 120] :
          k \in {"ok", "no_process", "cpu_raises", "memory_raises"} }

\* The try block of lines 173-179 on a record with zeroed metrics.
ReadProcStats(stats, o) ==
    IF o.kind \in {"notcalled", "no_process", "cpu_raises"} THEN stats
    ELSE IF o.kind = "memory_raises"
         THEN [stats EXCEPT !.cpu_percent = o.cpu]
    ELSE [stats EXCEPT !.cpu_percent = o.cpu, !.memory_mb = o.rss_mb]

\* The stats dict of check_process before its scan (lines 238-245).
DefaultStats ==
    [status |-> "inactive", is_running |-> FALSE, pid |-> NullPid,
     cpu_percent |-> 0, memory_mb |-> 0, uptime |-> NA]

NoRecord == [name |-> None, stats |-> DefaultStats]

\* ------------------------------------------------------------------------
\* ServiceMonitor.check_process: the listener table and the process table
\* ------------------------------------------------------------------------
\* Bounds of the listener tables scanned.
MaxConns == 2
LoopConns == 1

\* The pids of the process table.
Pids == {1, 2}

\* Command lines of processes, as argument lists.
Cmdlines ==
    { <<"/usr/bin/node", "api/server/index.js">>,
      <<"/venv/bin/python", "/venv/bin/UVICORN", "main:app">>,
      <<"nginx">> }

\* The dashboard's own command line: psutil.Process(None) is the calling
\* process, and net_connections() reports pid None for sockets it may not
\* inspect.
SelfCmdline == <<"python3", "librechat-dashboard.py">>

\* str.lower() on the words that occur.
Lower(w) ==
    CASE w = "/venv/bin/UVICORN" -> "/venv/bin/uvicorn"
      [] OTHER -> w

\* `marker in word` for lower-case words.
HasSubstring(word, marker) ==
    \/ marker = "node" /\ word \in {"/usr/bin/node", "node"}
    \/ marker = "uvicorn" /\ word \in {"/venv/bin/uvicorn", "uvicorn"}

\* command_filter in ' '.join(cmdline), compared as written (no lower()).
FilterMatchesCaseSensitive(command_filter, cmdline) ==
    \E i \in 1..Len(cmdline) : HasSubstring(cmdline[i], command_filter)

\* command_filter.lower() in ' '.join(cmdline).lower()  (lines 252-253).
FilterMatches(command_filter, cmdline) ==
    \E i \in 1..Len(cmdline) :
        HasSubstring(Lower(cmdline[i]), Lower(command_filter))

\* What psutil reports of one process: gone (psutil.Process raises), or its
\* command line and the first of its reads that raises, if any.
ProcInfos ==
    { [alive |-> FALSE, cmdline |-> <<>>, fail |-> "none"] }
    \cup { [alive |-> TRUE, cmdline |-> c, fail |-> f] :
              c \in Cmdlines,
              f \in {"none", "cpu_percent", "memory_info", "create_time"} }

SelfInfo == [alive |-> TRUE, cmdline |-> SelfCmdline, fail |-> "none"]

\* One entry of psutil.net_connections().
Conns ==
    [port : {3080, 8000}, status : {"LISTEN", "ESTABLISHED"},
     pid : Pids \cup {NullPid}]

RECURSIVE SeqsUpTo(_, _)
SeqsUpTo(S, n) ==
    IF n = 0 THEN {<<>>}
    ELSE LET shorter == SeqsUpTo(S, n - 1)
         IN  shorter \cup {Append(s, x) : s \in {t \in shorter : Len(t) = n - 1},
                                          x \in S}

\* A listener table (or net_connections() raising) and a process table.
Worlds ==
    [ok : {TRUE}, conns : SeqsUpTo(Conns, MaxConns), procs : [Pids -> ProcInfos]]
    \cup [ok : {FALSE}, conns : {<<>>}, procs : [Pids -> ProcInfos]]

\* psutil.Process(pid) for the pid of a connection.
ProcessOf(w, pid) == IF pid = NullPid THEN SelfInfo ELSE w.procs[pid]

\* The loop of lines 248-273 from connection i on, stats being the record
\* built so far.
RECURSIVE ScanConns(_, _, _, _, _)
ScanConns(w, i, port, command_filter, stats) ==
    IF i > Len(w.conns) THEN stats
    ELSE
      LET conn == w.conns[i]
          proc == ProcessOf(w, conn.pid)
          next(s) == ScanConns(w, i + 1, port, command_filter, s)
      IN
      IF ~(conn.port = port /\ conn.status = "LISTEN") THEN next(stats)
      ELSE IF ~proc.alive THEN next(stats)     \* psutil.Process raises: pass
      ELSE IF ~FilterMatches(command_filter, proc.cmdline) THEN next(stats)
      ELSE
        LET s1 == [stats EXCEPT !.status = "active", !.is_running = TRUE,
                                !.pid = conn.pid]
            s2 == [s1 EXCEPT !.cpu_percent = 7]
            s3 == [s2 EXCEPT !.memory_mb = 120]
            s4 == [s3 EXCEPT !.uptime = FormatUptime(0, 5400)]
        IN  CASE proc.fail = "cpu_percent" -> next(s1)    \* except: pass
              [] proc.fail = "memory_info" -> next(s2)
              [] proc.fail = "create_time" -> next(s3)
              [] OTHER -> s4                               \* break

\* check_process (lines 237-277) on the tables of w.
check_process(w, port, command_filter) ==
    IF ~w.ok THEN DefaultStats                 \* net_connections raises: pass
    ELSE ScanConns(w, 1, port, command_filter, DefaultStats)

\* The tables the reconciliation loop meets.
LoopWorlds == {w \in Worlds : Len(w.conns) <= LoopConns}

\* Every record check_process can return for the i-th manual process.
ProcessOutcomes ==
    [i \in 1..Len(ManualProcesses) |->
        { check_process(w, ManualProcesses[i].port,
                        ManualProcesses[i].cmd_filter) : w \in LoopWorlds }]

\* ------------------------------------------------------------------------
\* ServiceMonitor.run
\* ------------------------------------------------------------------------
\* The service whose observation history is recorded, and the status sequence
\* of the documented scenario.
ScenService == "mongodb"
Scenario == <<"inactive", "active", "active", "inactive", "active">>
OffScenario == <<"off">>

SvcInit ==
    /\ svc_running = TRUE
    /\ previous_status = [s \in SystemdSet \cup ManualSet |-> None]
    /\ svc_pc = "top"
    /\ svc_i = 1
    /\ tick_names = <<>>
    /\ last = NoRecord
    /\ step_logs = <<>>
    /\ step_emits = <<>>
    /\ step_pid_failed = FALSE
    /\ step_gap = None
    /\ scen_obs = <<>>
    /\ scen_fetches = <<>>
    /\ scen_gap = "clear"
    /\ man_obs = <<>>

CpIdle ==
    /\ world = [ok |-> TRUE, conns |-> <<>>,
                procs |-> [p \in Pids |-> [alive |-> FALSE, cmdline |-> <<>>,
                                           fail |-> "none"]]]
    /\ cp_rec = NoRecord

\* The while condition of line 150 read as true: a new tick begins.
SvcLoopTop ==
    /\ svc_pc = "top"
    /\ LoopCondition(svc_running)
    /\ svc_pc' = "loop"
    /\ svc_i' = 1
    /\ tick_names' = <<>>
    /\ last' = NoRecord
    /\ step_logs' = <<>>
    /\ step_emits' = <<>>
    /\ step_pid_failed' = FALSE
    /\ step_gap' = None
    /\ UNCHANGED <<svc_running, previous_status, scen_obs, scen_fetches,
                   scen_gap, man_obs>>
    /\ UNCHANGED <<sysvars, cpvars, stopvars, uivars>>

\* The while condition read as false: run() returns.
SvcExit ==
    /\ svc_pc = "top"
    /\ ~LoopCondition(svc_running)
    /\ svc_pc' = "done"
    /\ last' = NoRecord
    /\ step_logs' = <<>>
    /\ step_emits' = <<>>
    /\ step_pid_failed' = FALSE
    /\ step_gap' = None
    /\ UNCHANGED <<svc_running, previous_status, svc_i, tick_names, scen_obs,
                   scen_fetches, scen_gap, man_obs>>
    /\ UNCHANGED <<sysvars, cpvars, stopvars, uivars>>

\* The history of ScenService after it was observed as status, fetched telling
\* whether logs_ready was emitted for it at this tick.
ScenObsNext(status) ==
    IF /\ scen_obs # OffScenario
       /\ Len(scen_obs) < Len(Scenario)
       /\ Scenario[Len(scen_obs) + 1] = status
    THEN Append(scen_obs, status)
    ELSE OffScenario

ScenFetchesNext(status, fetched) ==
    IF ScenObsNext(status) = OffScenario THEN <<>>
    ELSE LET before == IF scen_fetches = <<>> THEN 0
                       ELSE scen_fetches[Len(scen_fetches)]
         IN  Append(scen_fetches, before + (IF fetched THEN 1 ELSE 0))

\* What ScenService was observed as since its last logs_ready emission:
\* "active_only", "other_seen" (something that is neither "active" nor
\* "inactive", and never "inactive"), or "clear" ("inactive" was seen since,
\* or no logs_ready was emitted yet).
ScenGapNext(status, fetched) ==
    IF fetched THEN "active_only"
    ELSE IF scen_gap = "clear" \/ status = "inactive" THEN "clear"
    ELSE IF status = "active" THEN scen_gap
    ELSE "other_seen"

\* The results the helpers can return, over every outcome of their queries.
StatusResults == {check_systemd_service(o) : o \in IsActiveOutcomes}
UptimeResults == {get_service_uptime(o) : o \in UptimeOutcomes}
LogResults == {get_systemd_logs(o) : o \in LogOutcomes}
PidResults ==
    {[pid |-> get_service_pid(o), failed |-> ShowPidFailed(o)] :
         o \in ShowPidOutcomes}

\* The records lines 173-179 can leave, from stats with zeroed metrics: the
\* block is entered only `if pid`.
StatsResultsAlways(stats) == {ReadProcStats(stats, o) : o \in ProcStatOutcomes}

StatsResults(stats) ==
    IF stats.pid # NullPid
    THEN {ReadProcStats(stats, o) : o \in ProcStatOutcomes}
    ELSE {ReadProcStats(stats, NotCalled)}

\* The test of line 166.
JustBecameActiveLevel(status, previous) == status = "active"

JustBecameActive(status, previous) == status = "active" /\ previous # "active"

\* self.previous_status[service] = status (line 170).
RecordStatusDropped(previous, service, status) == previous

RecordStatus(previous, service, status) ==
    [previous EXCEPT ![service] = status]

\* The logs_ready emissions of lines 166-168.
EmitLogs(service, fetch, logs) ==
    IF fetch THEN <<[name |-> service, logs |-> logs]>> ELSE <<>>

\* 'is_running': (status == "active") at line 158.
IsRunningUnlessInactive(status) == status # "inactive"

IsRunning(status) == status = "active"

\* The signals one pass of lines 153-181 emits, in emission order: logs_ready
\* at line 168 when the logs were fetched, then status_updated at line 181.
StepEmissionsStatusFirst(service, fetch) ==
    <<[sig |-> "status_updated", name |-> service]>>
    \o (IF fetch THEN <<[sig |-> "logs_ready", name |-> service]>> ELSE <<>>)

StepEmissions(service, fetch) ==
    (IF fetch THEN <<[sig |-> "logs_ready", name |-> service]>> ELSE <<>>)
    \o <<[sig |-> "status_updated", name |-> service]>>

\* The body of the first for loop for one service (lines 153-181), on a host
\* where check_systemd_service returns one of statuses.
SystemdStepOn(statuses) ==
    /\ svc_pc = "loop"
    /\ svc_i <= NumSystemd
    /\ LET service == SystemdServices[svc_i] IN
       \E status \in statuses, sh \in PidResults :
         LET pid == sh.pid
             fetch == JustBecameActive(status, previous_status[service])
         IN
         \E uptime \in (IF status = "active" THEN UptimeResults ELSE {NA}),
            logs \in (IF fetch THEN LogResults ELSE {"none"}) :
         \E stats \in StatsResults([status |-> status,
                                    is_running |-> IsRunning(status),
                                    pid |-> pid,
                                    cpu_percent |-> 0,
                                    memory_mb |-> 0,
                                    uptime |-> uptime]) :
           IF status = Raised \/ logs = Raised
           THEN \* an exception left run(): the thread ends
                /\ svc_pc' = "crashed"
                /\ UNCHANGED <<svc_running, previous_status, svc_i, tick_names,
                               last, step_logs, step_emits, step_pid_failed,
                               step_gap, scen_obs, scen_fetches, scen_gap,
                               man_obs>>
           ELSE /\ step_logs' = EmitLogs(service, fetch, logs)
                /\ step_emits' = StepEmissions(service, fetch)
                /\ previous_status' =
                       RecordStatus(previous_status, service, status)
                /\ step_pid_failed' = sh.failed
                /\ step_gap' = IF service = ScenService THEN scen_gap
                               ELSE None
                /\ last' = [name |-> service, stats |-> stats]
                /\ tick_names' = Append(tick_names, service)
                /\ IF service = ScenService
                   THEN /\ scen_obs' = ScenObsNext(status)
                        /\ scen_fetches' = ScenFetchesNext(status, fetch)
                        /\ scen_gap' = ScenGapNext(status, fetch)
                        /\ man_obs' = IF ScenObsNext(status) = OffScenario
                                      THEN OffScenario ELSE man_obs
                   ELSE UNCHANGED <<scen_obs, scen_fetches, scen_gap, man_obs>>
                /\ svc_i' = svc_i + 1
                /\ UNCHANGED <<svc_running, svc_pc>>
    /\ UNCHANGED <<sysvars, cpvars, stopvars, uivars>>

SystemdStep == SystemdStepOn(StatusResults)

\* The same loop body on a host whose units are up, down or failed.
SystemdStepAnswered == SystemdStepOn({"active", "inactive", "failed"})

\* The manual service whose observation history is recorded along the ticks
\* of the scenario, and the status sequence followed for it.
ManScenService == "librechat"
ManScenario == <<"inactive", "active">>

ManObsNext(status) ==
    IF /\ scen_obs # OffScenario
       /\ man_obs # OffScenario
       /\ Len(man_obs) < Len(ManScenario)
       /\ ManScenario[Len(man_obs) + 1] = status
    THEN Append(man_obs, status)
    ELSE OffScenario

\* What lines 184-186 do about the status edge of a manual process: a pass
\* like that of lines 166-170 would fetch logs and record the status.
ManualEdgeLikeSystemd(previous, name, status) ==
    [logs |-> EmitLogs(name, JustBecameActive(status, previous[name]), "logs"),
     previous |-> RecordStatus(previous, name, status)]

\* Lines 184-186 neither read nor write self.previous_status and emit no
\* logs_ready: only check_process and status_updated.
ManualEdge(previous, name, status) ==
    [logs |-> <<>>, previous |-> previous]

\* The body of the second for loop for one process (lines 184-186).
ProcessStep ==
    /\ svc_pc = "loop"
    /\ svc_i > NumSystemd
    /\ svc_i <= NumTracked
    /\ LET m == ManualProcesses[svc_i - NumSystemd] IN
       \E stats \in ProcessOutcomes[svc_i - NumSystemd] :
         LET edge == ManualEdge(previous_status, m.name, stats.status) IN
           /\ last' = [name |-> m.name, stats |-> stats]
           /\ tick_names' = Append(tick_names, m.name)
           /\ step_logs' = edge.logs
           /\ previous_status' = edge.previous
           /\ step_emits' = StepEmissions(m.name, edge.logs # <<>>)
           /\ step_pid_failed' = FALSE
           /\ step_gap' = None
           /\ man_obs' = IF m.name = ManScenService
                         THEN ManObsNext(stats.status) ELSE man_obs
    /\ svc_i' = svc_i + 1
    /\ svc_pc' = IF svc_i = NumTracked THEN "sleep" ELSE "loop"
    /\ UNCHANGED <<svc_running, scen_obs, scen_fetches, scen_gap>>
    /\ UNCHANGED <<sysvars, cpvars, stopvars, uivars>>

\* self.msleep(2000) at line 188.
SvcSleep ==
    /\ svc_pc = "sleep"
    /\ svc_pc' = "top"
    /\ last' = NoRecord
    /\ step_logs' = <<>>
    /\ step_emits' = <<>>
    /\ step_pid_failed' = FALSE
    /\ step_gap' = None
    /\ UNCHANGED <<svc_running, previous_status, svc_i, tick_names, scen_obs,
                   scen_fetches, scen_gap, man_obs>>
    /\ UNCHANGED <<sysvars, cpvars, stopvars, uivars>>

\* ServiceMonitor.stop (lines 292-293), called from the UI thread.
SvcStop ==
    /\ svc_running
    /\ svc_running' = FALSE
    /\ UNCHANGED <<previous_status, svc_pc, svc_i, tick_names, last, step_logs,
                   step_emits, step_pid_failed, step_gap, scen_obs,
                   scen_fetches, scen_gap, man_obs>>
    /\ UNCHANGED <<sysvars, cpvars, stopvars, uivars>>

SvcNext ==
    SvcLoopTop \/ SvcExit \/ SystemdStep \/ ProcessStep \/ SvcSleep \/ SvcStop

\* ------------------------------------------------------------------------
\* check_process applied to a given listener table
\* ------------------------------------------------------------------------
CpInit ==
    /\ world \in Worlds
    /\ cp_rec = NoRecord

\* check_process(name, port, cmd_filter) for the i-th manual process.
CheckProcess(i) ==
    /\ cp_rec' = [name |-> ManualProcesses[i].name,
                  stats |-> check_process(world, ManualProcesses[i].port,
                                          ManualProcesses[i].cmd_filter)]
    /\ UNCHANGED world
    /\ UNCHANGED <<sysvars, svcvars, stopvars, uivars>>

CheckLibrechat == CheckProcess(1)
CheckRagApi == CheckProcess(2)

CpNext == CheckLibrechat \/ CheckRagApi

\* ------------------------------------------------------------------------
\* Launch workers (ProcessRunner, PgAdminManager) and the stop paths
\* ------------------------------------------------------------------------
\* The stop paths: ProcessRunner.stop_process (329-335), PgAdminManager.stop
\* (89-97) and the port-lookup branch of ServiceCard.stop_process (486-499).
StopPaths == {"runner", "pgadmin", "port"}

\* The seconds of the grace wait: wait(timeout=5).
GraceSecs == 5

\* Bounds of the launch model.
MaxLines == 2
MaxStopCalls == 1

NoCall == [terminated |-> FALSE, expired |-> FALSE, alive_at_expiry |-> FALSE,
           waited |-> 0, killed |-> FALSE]

\* A notification of a worker; line numbers the child's output lines.
Emit(sig, arg) == [sig |-> sig, arg |-> arg, line |-> 0]

\* output_ready carrying the n-th line the child wrote.
OutputLine(n) == [sig |-> "output_ready", arg |-> "line", line |-> n]

\* The number of lines of the child the read loop has taken from the pipe and
\* emitted.
LinesRead(events) ==
    Cardinality({k \in 1..Len(events) : events[k].arg = "line"})

CountSig(events, sig) ==
    Cardinality({k \in 1..Len(events) : events[k].sig = sig})

\* The write end of the child's stdout pipe is closed by every holder: the
\* worker's read loop (lines 63 and 320) ends.
PipeAtEOF == ch_state = "exited" /\ ~pipe_held

StopInit ==
    /\ st_path \in StopPaths
    /\ ch_responsive \in BOOLEAN
    /\ pipe_held \in BOOLEAN
    /\ ch_term = FALSE
    /\ ch_kill = FALSE
    /\ ch_code = "none"
    /\ ch_lines = 0
    /\ wk_events = <<>>
    /\ sig_log = <<>>
    /\ st_pc = "idle"
    /\ st_grace = 0
    /\ st_call = NoCall
    /\ st_calls = 0
    /\ IF st_path = "port"
       THEN \* a process launched outside the dashboard listens on the port
            /\ ch_state = "running"
            /\ wk_pc = "idle"
            /\ wk_process = FALSE
            /\ wk_running = FALSE
       ELSE \* start(): the worker thread is about to execute run()
            /\ ch_state = "none"
            /\ wk_pc = "spawn"
            /\ wk_process = FALSE
            /\ wk_running = FALSE

\* The launch model before any launch, for the other specifications.
StopIdle ==
    /\ StopInit
    /\ st_path = "runner"
    /\ ch_responsive
    /\ ~pipe_held

\* The notifications of a worker that ends, with the child's return code.
EndEvents(code) ==
    IF st_path = "runner" THEN <<Emit("process_finished", code)>>
    ELSE <<Emit("status_updated", "False")>>

\* The except branch of run (lines 84-87 and 325-327).
ExceptEvents ==
    IF st_path = "runner"
    THEN <<Emit("output_ready", "Error"), Emit("process_finished", "-1")>>
    ELSE <<Emit("output_ready", "Error"), Emit("status_updated", "False")>>

\* subprocess.Popen succeeds (lines 51-60 and 310-318).
RunSpawn ==
    /\ wk_pc = "spawn"
    /\ ch_state' = "running"
    /\ wk_process' = TRUE
    /\ wk_running' = (st_path = "pgadmin")
    /\ wk_events' = IF st_path = "runner"
                    THEN Append(wk_events, Emit("process_started", "none"))
                    ELSE wk_events
    /\ wk_pc' = "reading"
    /\ UNCHANGED <<st_path, ch_lines, ch_responsive, pipe_held, ch_term,
                   ch_kill, ch_code, sig_log, st_pc, st_grace, st_call,
                   st_calls>>
    /\ UNCHANGED <<sysvars, svcvars, cpvars, uivars>>

\* subprocess.Popen raises: the except branch runs.
RunSpawnFails ==
    /\ wk_pc = "spawn"
    /\ wk_events' = wk_events \o ExceptEvents
    /\ wk_running' = FALSE
    /\ wk_pc' = "done"
    /\ UNCHANGED <<st_path, ch_lines, ch_state, ch_responsive, pipe_held,
                   ch_term, ch_kill, ch_code, wk_process, sig_log, st_pc,
                   st_grace, st_call, st_calls>>
    /\ UNCHANGED <<sysvars, svcvars, cpvars, uivars>>

\* One iteration of `for line in self.process.stdout` (lines 63-78, 320-321).
RunReadLine ==
    /\ wk_pc = "reading"
    /\ LinesRead(wk_events) < ch_lines
    /\ wk_events' = Append(wk_events, OutputLine(LinesRead(wk_events) + 1))
    /\ wk_pc' = IF st_path = "pgadmin" /\ ~wk_running THEN "waiting"  \* break
                ELSE "reading"
    /\ UNCHANGED <<st_path, ch_lines, ch_state, ch_responsive, pipe_held,
                   ch_term, ch_kill, ch_code, wk_process, wk_running, sig_log,
                   st_pc, st_grace, st_call, st_calls>>
    /\ UNCHANGED <<sysvars, svcvars, cpvars, uivars>>

\* Reading the next line raises (its bytes are no valid text in the locale's
\* encoding): the except branch.
RunReadRaises ==
    /\ wk_pc = "reading"
    /\ LinesRead(wk_events) < ch_lines
    /\ wk_events' = wk_events \o ExceptEvents
    /\ wk_running' = FALSE
    /\ wk_pc' = "done"
    /\ UNCHANGED <<st_path, ch_lines, ch_state, ch_responsive, pipe_held,
                   ch_term, ch_kill, ch_code, wk_process, sig_log, st_pc,
                   st_grace, st_call, st_calls>>
    /\ UNCHANGED <<sysvars, svcvars, cpvars, uivars>>

\* The read loop meets end of file.
RunEOF ==
    /\ wk_pc = "reading"
    /\ PipeAtEOF
    /\ LinesRead(wk_events) = ch_lines
    /\ wk_pc' = "waiting"
    /\ UNCHANGED <<st_path, ch_lines, ch_state, ch_responsive, pipe_held,
                   ch_term, ch_kill, ch_code, wk_process, wk_running,
                   wk_events, sig_log, st_pc, st_grace, st_call, st_calls>>
    /\ UNCHANGED <<sysvars, svcvars, cpvars, uivars>>

\* self.process.wait() returns and the end is notified (80-82, 323-324).
RunWait ==
    /\ wk_pc = "waiting"
    /\ ch_state = "exited"
    /\ wk_events' = wk_events \o EndEvents(ch_code)
    /\ wk_running' = FALSE
    /\ wk_pc' = "done"
    /\ UNCHANGED <<st_path, ch_lines, ch_state, ch_responsive, pipe_held,
                   ch_term, ch_kill, ch_code, wk_process, sig_log, st_pc,
                   st_grace, st_call, st_calls>>
    /\ UNCHANGED <<sysvars, svcvars, cpvars, uivars>>

\* The child of a worker writes a line to its stdout.
ChildWrites ==
    /\ wk_process
    /\ ch_state = "running"
    /\ ch_lines < MaxLines
    /\ ch_lines' = ch_lines + 1
    /\ UNCHANGED <<st_path, ch_state, ch_responsive, pipe_held, ch_term,
                   ch_kill, ch_code, wk_pc, wk_process, wk_running, wk_events,
                   sig_log, st_pc, st_grace, st_call, st_calls>>
    /\ UNCHANGED <<sysvars, svcvars, cpvars, uivars>>

\* The child ends: by itself, on SIGTERM when it handles it, on SIGKILL.
ChildExit(code) ==
    /\ ch_state = "running"
    /\ ch_state' = "exited"
    /\ ch_code' = code
    /\ UNCHANGED <<st_path, ch_lines, ch_responsive, pipe_held, ch_term,
                   ch_kill, wk_pc, wk_process, wk_running, wk_events, sig_log,
                   st_pc, st_grace, st_call, st_calls>>
    /\ UNCHANGED <<sysvars, svcvars, cpvars, uivars>>

ChildExitsByItself == ChildExit("0")
ChildExitsOnTerm == ch_term /\ ch_responsive /\ ChildExit("-15")
ChildDiesOnKill == ch_kill /\ ChildExit("-9")

\* The processes the child started, which inherited its stdout, end.
DescendantsExit ==
    /\ pipe_held
    /\ ch_state # "none"
    /\ pipe_held' = FALSE
    /\ UNCHANGED <<st_path, ch_lines, ch_state, ch_responsive, ch_term,
                   ch_kill, ch_code, wk_pc, wk_process, wk_running, wk_events,
                   sig_log, st_pc, st_grace, st_call, st_calls>>
    /\ UNCHANGED <<sysvars, svcvars, cpvars, uivars>>

\* The stop call finds a process to stop: `if self.process` (92, 330), or the
\* lookup of a listener on the port (489-491).
StopTargetOutcomes ==
    IF st_path = "port"
    THEN (IF ch_state = "running" THEN {"found", "terminate_raises"} ELSE {})
         \cup {"none"}
    ELSE IF wk_process THEN {"found"} ELSE {"none"}

\* A stop call begins: up to and including terminate().
StopCall ==
    /\ st_pc \in {"idle", "done"}
    /\ st_calls < MaxStopCalls
    /\ st_calls' = st_calls + 1
    /\ wk_running' = IF st_path = "pgadmin" THEN FALSE ELSE wk_running
    /\ \E target \in StopTargetOutcomes :
         IF target = "found"
         THEN /\ sig_log' = Append(sig_log, "terminate")
              /\ ch_term' = (ch_term \/ ch_state = "running")
              /\ st_pc' = "grace"
              /\ st_grace' = 0
              /\ st_call' = [NoCall EXCEPT !.terminated = TRUE]
         ELSE /\ st_pc' = "done"
              /\ st_grace' = 0
              /\ st_call' = NoCall
              /\ UNCHANGED <<sig_log, ch_term>>
    /\ UNCHANGED <<st_path, ch_lines, ch_state, ch_responsive, pipe_held,
                   ch_kill, ch_code, wk_pc, wk_process, wk_events>>
    /\ UNCHANGED <<sysvars, svcvars, cpvars, uivars>>

\* wait(timeout=5) after `elapsed` seconds (lines 94-96, 332-334, 493-495).
StopWaitNoGrace(exited, elapsed) ==
    IF exited THEN "returned" ELSE "timeout"

StopWait(exited, elapsed) ==
    IF exited THEN "returned"
    ELSE IF elapsed >= GraceSecs THEN "timeout"
    ELSE "waiting"

\* A second of the grace wait passes.
GraceTick ==
    /\ st_pc = "grace"
    /\ StopWait(ch_state = "exited", st_grace) = "waiting"
    /\ st_grace' = st_grace + 1
    /\ UNCHANGED <<st_path, ch_lines, ch_state, ch_responsive, pipe_held,
                   ch_term, ch_kill, ch_code, wk_pc, wk_process, wk_running,
                   wk_events, sig_log, st_pc, st_call, st_calls>>
    /\ UNCHANGED <<sysvars, svcvars, cpvars, uivars>>

\* The wait returns: the process has exited.
StopWaitReturns ==
    /\ st_pc = "grace"
    /\ StopWait(ch_state = "exited", st_grace) = "returned"
    /\ st_pc' = "done"
    /\ st_call' = [st_call EXCEPT !.waited = st_grace]
    /\ UNCHANGED <<st_path, ch_lines, ch_state, ch_responsive, pipe_held,
                   ch_term, ch_kill, ch_code, wk_pc, wk_process, wk_running,
                   wk_events, sig_log, st_grace, st_calls>>
    /\ UNCHANGED <<sysvars, svcvars, cpvars, uivars>>

\* The wait raises TimeoutExpired.
StopTimeout ==
    /\ st_pc = "grace"
    /\ StopWait(ch_state = "exited", st_grace) = "timeout"
    /\ st_pc' = "expired"
    /\ st_call' = [st_call EXCEPT !.expired = TRUE, !.waited = st_grace,
                                  !.alive_at_expiry = (ch_state = "running")]
    /\ UNCHANGED <<st_path, ch_lines, ch_state, ch_responsive, pipe_held,
                   ch_term, ch_kill, ch_code, wk_pc, wk_process, wk_running,
                   wk_events, sig_log, st_grace, st_calls>>
    /\ UNCHANGED <<sysvars, svcvars, cpvars, uivars>>

\* The except branch: kill().
StopKill ==
    /\ st_pc = "expired"
    /\ sig_log' = Append(sig_log, "kill")
    /\ ch_kill' = (ch_kill \/ ch_state = "running")
    /\ st_call' = [st_call EXCEPT !.killed = TRUE]
    /\ st_pc' = "done"
    /\ UNCHANGED <<st_path, ch_lines, ch_state, ch_responsive, pipe_held,
                   ch_term, ch_code, wk_pc, wk_process, wk_running, wk_events,
                   st_grace, st_calls>>
    /\ UNCHANGED <<sysvars, svcvars, cpvars, uivars>>

\* The caller's wait() on the worker thread after the stop call returned
\* (lines 485, 860, 1221): it returns once run() has ended.
StopJoin ==
    /\ st_pc = "done"
    /\ st_path # "port"
    /\ wk_pc = "done"
    /\ st_pc' = "joined"
    /\ UNCHANGED <<st_path, ch_lines, ch_state, ch_responsive, pipe_held,
                   ch_term, ch_kill, ch_code, wk_pc, wk_process, wk_running,
                   wk_events, sig_log, st_grace, st_call, st_calls>>
    /\ UNCHANGED <<sysvars, svcvars, cpvars, uivars>>

StopNext ==
    \/ RunSpawn \/ RunSpawnFails \/ RunReadLine \/ RunReadRaises \/ RunEOF
    \/ RunWait
    \/ ChildWrites \/ ChildExitsByItself \/ ChildExitsOnTerm \/ ChildDiesOnKill
    \/ DescendantsExit
    \/ StopCall \/ GraceTick \/ StopWaitReturns \/ StopTimeout \/ StopKill
    \/ StopJoin

\* What the scheduler and the kernel guarantee: a thread that can take a step
\* takes it, time passes, SIGKILL ends a process. Nothing makes a child end by
\* itself, its descendants end, or the user press stop.
StopFairness ==
    /\ WF_vars(RunSpawn \/ RunSpawnFails)
    /\ WF_vars(RunReadLine)
    /\ WF_vars(RunEOF)
    /\ WF_vars(RunWait)
    /\ WF_vars(ChildExitsOnTerm)
    /\ WF_vars(ChildDiesOnKill)
    /\ WF_vars(GraceTick)
    /\ WF_vars(StopWaitReturns)
    /\ WF_vars(StopTimeout)
    /\ WF_vars(StopKill)
    /\ WF_vars(StopJoin)

\* ------------------------------------------------------------------------
\* Uptime formatting
\* ------------------------------------------------------------------------
\* Durations are formatted in steps of 15 seconds, from a clock that is a
\* little behind the start time up to two days and twenty minutes.
MaxUptimeSteps == 11600

Durations == {15 * k : k \in -4..MaxUptimeSteps}

\* datetime.now() - start: a timedelta is kept normalised, 0 <= seconds <
\* 86400, days carrying the sign.
Timedelta(total) == [days |-> total \div 86400, seconds |-> total % 86400]

FmtInit ==
    /\ fmt_in \in Durations
    /\ fmt_path = None
    /\ fmt_out = NA

FmtIdle ==
    /\ fmt_in = 0
    /\ fmt_path = None
    /\ fmt_out = NA

\* get_service_uptime on a timestamp that parses (lines 218-232).
FormatSystemdUptime ==
    /\ fmt_path = None
    /\ LET uptime == Timedelta(fmt_in)
       IN  fmt_out' = get_service_uptime([kind |-> "ok", days |-> uptime.days,
                                          seconds |-> uptime.seconds])
    /\ fmt_path' = "systemd"
    /\ UNCHANGED fmt_in
    /\ UNCHANGED <<corevars, cardvars, pgvars, closevars>>

\* The uptime of a matched process in check_process (lines 261-270).
FormatProcessUptime ==
    /\ fmt_path = None
    /\ LET uptime == Timedelta(fmt_in)
       IN  fmt_out' = FormatUptime(uptime.days, uptime.seconds)
    /\ fmt_path' = "process"
    /\ UNCHANGED fmt_in
    /\ UNCHANGED <<corevars, cardvars, pgvars, closevars>>

FmtNext == FormatSystemdUptime \/ FormatProcessUptime

\* ------------------------------------------------------------------------
\* ServiceCard of an externally-launched service, the Start Everything
\* timers and the handlers that run pkexec
\* ------------------------------------------------------------------------
\* Bound on the ProcessRunner threads created for the card.
MaxWorkers == 2

CardNames == {"librechat", "rag_api"}

\* The card of a systemd-managed service that is followed, and is_systemd of
\* a card (lines 616-632).
SystemdCard == "mongodb"

IsSystemd(name) == name \in SystemdSet

\* The last lines of ServiceCard.update_stats (lines 435-438): the enabled
\* state of the two buttons after the update.
UpdateButtonsAnyCard(is_systemd, is_running, buttons) ==
    [start |-> ~is_running, stop |-> is_running]

UpdateButtons(is_systemd, is_running, buttons) ==
    IF ~is_systemd THEN [start |-> ~is_running, stop |-> is_running]
    ELSE buttons

\* The UI thread is not inside closeEvent: it can run handlers and deliver
\* queued signals.
UiFree == ce_pc = "open"

\* QThread.isRunning() of a worker.
IsRunningThread(s) == s \in {"starting", "running"}

\* pkexec ... under subprocess.run(timeout=...): exit status 0, the dialog
\* dismissed or authorisation refused (126, 127), systemctl failing, the
\* timeout expiring, pkexec missing.
PkexecOutcomes == {"exit0", "denied", "exit_nonzero", "timeout", "not_runnable"}

\* subprocess.run raises (TimeoutExpired, FileNotFoundError).
PkRaises(o) == o \in {"timeout", "not_runnable"}

\* The services of the two batched commands (lines 1097 and 1134).
StartServices == <<"mongodb", "postgresql", "meilisearch", "ollama">>
StopServices == <<"ollama", "meilisearch", "postgresql", "mongodb">>

\* pkexec bash -c 'systemctl <verb> s1 && systemctl <verb> s2 && ...' (lines
\* 1099-1100, 1136-1137): the commands are run in order and the chain ends at
\* the first, the k-th, that fails or is running when the timeout expires;
\* nothing is run when pkexec refuses or cannot be run.
BatchRun(services, o, k) ==
    CASE o = "exit0" -> [issued |-> services, done |-> services]
      [] o \in {"exit_nonzero", "timeout"} ->
             [issued |-> SubSeq(services, 1, k),
              done |-> SubSeq(services, 1, k - 1)]
      [] OTHER -> [issued |-> <<>>, done |-> <<>>]

\* The runs of a batch: its outcome and, where the chain was cut short, the
\* command at which it was.
BatchRuns(services) ==
    {<<o, k>> : o \in {"exit_nonzero", "timeout"}, k \in 1..Len(services)}
    \cup {<<o, 1>> : o \in PkexecOutcomes \ {"exit_nonzero", "timeout"}}

\* What an invocation of a pkexec handler did: the message boxes shown,
\* whether an exception left the handler, the systemctl commands issued and
\* those that succeeded; for stop_all also the reply to its question, whether
\* a launch worker of the card or a listener of its port was running, and
\* whether the card's stop_process was called.
NoInvocation ==
    [handler |-> None, outcome |-> None, notices |-> <<>>, raised |-> FALSE,
     issued |-> <<>>, done |-> <<>>, reply |-> None,
     launched_running |-> FALSE, stop_requested |-> FALSE]

\* LibreChatDashboard.start_systemd_services (lines 1096-1105): the message
\* boxes shown, and whether an exception left the handler.
start_systemd_services(o, k) ==
    [NoInvocation EXCEPT
       !.handler = "start_systemd_services",
       !.outcome = o,
       !.notices = IF PkRaises(o) THEN <<"critical">>
                   ELSE IF o = "exit0" THEN <<"information">>
                   ELSE <<>>,
       !.issued = BatchRun(StartServices, o, k).issued,
       !.done = BatchRun(StartServices, o, k).done]

\* The pkexec part of LibreChatDashboard.stop_all (lines 1134-1141): the
\* return code is not looked at.
stop_all_services(o, k) ==
    [NoInvocation EXCEPT
       !.handler = "stop_all",
       !.outcome = o,
       !.notices = IF PkRaises(o) THEN <<"critical">> ELSE <<"information">>,
       !.issued = BatchRun(StopServices, o, k).issued,
       !.done = BatchRun(StopServices, o, k).done,
       !.reply = "Yes"]

\* stop_all when the question is answered No (line 1127): nothing is run.
stop_all_declined ==
    [NoInvocation EXCEPT !.handler = "stop_all", !.outcome = "not_run",
                         !.reply = "No"]

\* ServiceCard.start_service / stop_service (lines 440-446): no message box
\* and no exception handler.
card_service(handler, o) ==
    [NoInvocation EXCEPT !.handler = handler, !.outcome = o,
                         !.raised = PkRaises(o)]

CardInit ==
    /\ cd_name \in CardNames \cup {SystemdCard}
    /\ cd_path_exists \in (IF IsSystemd(cd_name) THEN {TRUE} ELSE BOOLEAN)
    /\ cd_start_enabled = TRUE
    /\ cd_stop_enabled = IsSystemd(cd_name)   \* setEnabled(False), line 403
    /\ cd_is_running = FALSE
    /\ cd_workers = <<>>
    /\ cd_queue = <<>>
    /\ cd_listening = FALSE
    /\ cd_overlap = FALSE
    /\ tm_pc = "idle"
    /\ se_log = <<>>
    /\ pk_last = NoInvocation

CardIdle ==
    /\ CardInit
    /\ cd_name = "librechat"
    /\ cd_path_exists

\* ServiceCard.start_process (lines 448-471): a missing directory gives a
\* warning and returns; otherwise a new ProcessRunner replaces
\* self.process_thread and is started, whatever the earlier one is doing (the
\* earlier thread keeps running with its signals connected).
StartProcess ==
    IF ~cd_path_exists
    THEN UNCHANGED <<cd_workers, cd_overlap>>
    ELSE /\ cd_workers' = Append(cd_workers, "starting")
         /\ cd_overlap' =
                (cd_overlap
                 \/ \E w \in 1..Len(cd_workers) : IsRunningThread(cd_workers[w]))

\* ServiceCard.stop_process (lines 482-499).  stop_process() and wait() on a
\* running worker return once its run() has ended; otherwise, when the card
\* shows the service as running, the listener on the port is terminated.
StopProcess ==
    LET n == Len(cd_workers) IN
    IF n > 0 /\ IsRunningThread(cd_workers[n])
    THEN /\ cd_workers' = [cd_workers EXCEPT ![n] = "finished"]
         /\ cd_queue' = cd_queue \o
                (IF cd_workers[n] = "starting"
                 THEN <<[sig |-> "process_started", w |-> n]>> ELSE <<>>)
                \o <<[sig |-> "process_finished", w |-> n]>>
         /\ cd_listening' =
                (cd_listening
                 /\ \E v \in 1..n : v # n /\ cd_workers[v] = "running")
    ELSE IF cd_is_running
    THEN /\ cd_listening' = FALSE
         /\ UNCHANGED <<cd_workers, cd_queue>>
    ELSE UNCHANGED <<cd_workers, cd_queue, cd_listening>>

\* The Start button of a card connected to start_process is clicked.
ClickStart ==
    /\ UiFree
    /\ ~IsSystemd(cd_name)
    /\ cd_start_enabled
    /\ Len(cd_workers) < MaxWorkers
    /\ StartProcess
    /\ UNCHANGED <<cd_name, cd_path_exists, cd_start_enabled, cd_stop_enabled,
                   cd_is_running, cd_queue, cd_listening, tm_pc, se_log,
                   pk_last>>
    /\ UNCHANGED <<corevars, fmtvars, pgvars, closevars>>

\* The Stop button of a card connected to stop_process is clicked.
ClickStop ==
    /\ UiFree
    /\ ~IsSystemd(cd_name)
    /\ cd_stop_enabled
    /\ StopProcess
    /\ UNCHANGED <<cd_name, cd_path_exists, cd_start_enabled, cd_stop_enabled,
                   cd_is_running, cd_overlap, tm_pc, se_log, pk_last>>
    /\ UNCHANGED <<corevars, fmtvars, pgvars, closevars>>

\* ProcessRunner.run of worker w up to process_started (lines 309-318).
WorkerSpawn ==
    /\ \E w \in 1..Len(cd_workers) :
         /\ cd_workers[w] = "starting"
         /\ cd_workers' = [cd_workers EXCEPT ![w] = "running"]
         /\ cd_queue' = Append(cd_queue, [sig |-> "process_started", w |-> w])
    /\ UNCHANGED <<cd_name, cd_path_exists, cd_start_enabled, cd_stop_enabled,
                   cd_is_running, cd_listening, cd_overlap, tm_pc, se_log,
                   pk_last>>
    /\ UNCHANGED <<corevars, fmtvars, pgvars, closevars>>

\* Popen raises in worker w (lines 325-327).
WorkerSpawnFails ==
    /\ \E w \in 1..Len(cd_workers) :
         /\ cd_workers[w] = "starting"
         /\ cd_workers' = [cd_workers EXCEPT ![w] = "finished"]
         /\ cd_queue' = Append(cd_queue, [sig |-> "process_finished", w |-> w])
    /\ UNCHANGED <<cd_name, cd_path_exists, cd_start_enabled, cd_stop_enabled,
                   cd_is_running, cd_listening, cd_overlap, tm_pc, se_log,
                   pk_last>>
    /\ UNCHANGED <<corevars, fmtvars, pgvars, closevars>>

\* The service launched by a worker starts listening on its port.
ChildListens ==
    /\ ~cd_listening
    /\ \E w \in 1..Len(cd_workers) : cd_workers[w] = "running"
    /\ cd_listening' = TRUE
    /\ UNCHANGED <<cd_name, cd_path_exists, cd_start_enabled, cd_stop_enabled,
                   cd_is_running, cd_workers, cd_queue, cd_overlap, tm_pc,
                   se_log, pk_last>>
    /\ UNCHANGED <<corevars, fmtvars, pgvars, closevars>>

\* The child of worker w ends and run() emits process_finished (320-324).
WorkerEnds ==
    /\ \E w \in 1..Len(cd_workers) :
         /\ cd_workers[w] = "running"
         /\ cd_workers' = [cd_workers EXCEPT ![w] = "finished"]
         /\ cd_queue' = Append(cd_queue, [sig |-> "process_finished", w |-> w])
         /\ cd_listening' =
                (cd_listening
                 /\ \E v \in 1..Len(cd_workers) :
                        v # w /\ cd_workers[v] = "running")
    /\ UNCHANGED <<cd_name, cd_path_exists, cd_start_enabled, cd_stop_enabled,
                   cd_is_running, cd_overlap, tm_pc, se_log, pk_last>>
    /\ UNCHANGED <<corevars, fmtvars, pgvars, closevars>>

\* The UI thread delivers the oldest queued signal: on_process_started
\* (lines 478-480) or on_process_finished (lines 501-503).
CardDeliver ==
    /\ UiFree
    /\ cd_queue # <<>>
    /\ cd_queue' = Tail(cd_queue)
    /\ cd_start_enabled' = (Head(cd_queue).sig = "process_finished")
    /\ cd_stop_enabled' = (Head(cd_queue).sig = "process_started")
    /\ UNCHANGED <<cd_name, cd_path_exists, cd_is_running, cd_workers,
                   cd_listening, cd_overlap, tm_pc, se_log, pk_last>>
    /\ UNCHANGED <<corevars, fmtvars, pgvars, closevars>>

\* A status record of the poller reaches ServiceCard.update_stats (lines
\* 411-438): for a manual card is_running tells whether the port has its
\* listener, for a systemd card whether the unit is active.
PollerUpdate ==
    /\ UiFree
    /\ \E is_running \in (IF IsSystemd(cd_name) THEN BOOLEAN
                          ELSE {cd_listening}) :
         LET buttons == UpdateButtons(IsSystemd(cd_name), is_running,
                                      [start |-> cd_start_enabled,
                                       stop |-> cd_stop_enabled])
         IN  /\ cd_is_running' = is_running
             /\ cd_start_enabled' = buttons.start
             /\ cd_stop_enabled' = buttons.stop
    /\ UNCHANGED <<cd_name, cd_path_exists, cd_workers, cd_queue, cd_listening,
                   cd_overlap, tm_pc, se_log, pk_last>>
    /\ UNCHANGED <<corevars, fmtvars, pgvars, closevars>>

\* LibreChatDashboard.start_systemd_services (lines 1096-1105).
StartSystemdServices ==
    /\ UiFree
    /\ \E r \in BatchRuns(StartServices) :
           pk_last' = start_systemd_services(r[1], r[2])
    /\ UNCHANGED <<cd_name, cd_path_exists, cd_start_enabled, cd_stop_enabled,
                   cd_is_running, cd_workers, cd_queue, cd_listening,
                   cd_overlap, tm_pc, se_log>>
    /\ UNCHANGED <<corevars, fmtvars, pgvars, closevars>>

\* LibreChatDashboard.start_everything (lines 1107-1109).
StartEverything ==
    /\ UiFree
    /\ tm_pc = "idle"
    /\ \E r \in BatchRuns(StartServices) :
           pk_last' = start_systemd_services(r[1], r[2])
    /\ tm_pc' = "manual"
    /\ se_log' = <<"systemd">>
    /\ UNCHANGED <<cd_name, cd_path_exists, cd_start_enabled, cd_stop_enabled,
                   cd_is_running, cd_workers, cd_queue, cd_listening,
                   cd_overlap>>
    /\ UNCHANGED <<corevars, fmtvars, pgvars, closevars>>

\* The cards the two timer callbacks start (lines 1112-1113, 1117-1118).
ManualTimerCardLibrechat == "librechat"

ManualTimerCard == "rag_api"

LibrechatTimerCard == "librechat"

\* LibreChatDashboard._start_manual_processes (lines 1111-1114).
TimerManual ==
    /\ UiFree
    /\ tm_pc = "manual"
    /\ IF cd_name = ManualTimerCard
       THEN Len(cd_workers) < MaxWorkers /\ StartProcess
       ELSE UNCHANGED <<cd_workers, cd_overlap>>
    /\ tm_pc' = "librechat"
    /\ se_log' = Append(se_log, ManualTimerCard)
    /\ UNCHANGED <<cd_name, cd_path_exists, cd_start_enabled, cd_stop_enabled,
                   cd_is_running, cd_queue, cd_listening, pk_last>>
    /\ UNCHANGED <<corevars, fmtvars, pgvars, closevars>>

\* LibreChatDashboard._start_librechat (lines 1116-1118).
TimerLibrechat ==
    /\ UiFree
    /\ tm_pc = "librechat"
    /\ IF cd_name = LibrechatTimerCard
       THEN Len(cd_workers) < MaxWorkers /\ StartProcess
       ELSE UNCHANGED <<cd_workers, cd_overlap>>
    /\ tm_pc' = "idle"
    /\ se_log' = Append(se_log, LibrechatTimerCard)
    /\ UNCHANGED <<cd_name, cd_path_exists, cd_start_enabled, cd_stop_enabled,
                   cd_is_running, cd_queue, cd_listening, pk_last>>
    /\ UNCHANGED <<corevars, fmtvars, pgvars, closevars>>

\* LibreChatDashboard.stop_all (lines 1120-1141).
StopAll ==
    /\ UiFree
    /\ \E reply \in {"Yes", "No"} :
         IF reply = "No"
         THEN /\ pk_last' = stop_all_declined
              /\ UNCHANGED <<cd_workers, cd_queue, cd_listening>>
         ELSE /\ IF cd_name \in CardNames /\ cd_is_running THEN StopProcess
                 ELSE UNCHANGED <<cd_workers, cd_queue, cd_listening>>
              /\ \E r \in BatchRuns(StopServices) :
                   pk_last' =
                     [stop_all_services(r[1], r[2]) EXCEPT
                        !.launched_running =
                            (cd_listening
                             \/ \E w \in 1..Len(cd_workers) :
                                    IsRunningThread(cd_workers[w])),
                        !.stop_requested = cd_is_running]
    /\ UNCHANGED <<cd_name, cd_path_exists, cd_start_enabled, cd_stop_enabled,
                   cd_is_running, cd_overlap, tm_pc, se_log>>
    /\ UNCHANGED <<corevars, fmtvars, pgvars, closevars>>

\* ServiceCard.start_service of a systemd card (lines 440-442).
CardStartService ==
    /\ UiFree
    /\ IsSystemd(cd_name)
    /\ cd_start_enabled
    /\ \E o \in PkexecOutcomes : pk_last' = card_service("start_service", o)
    /\ UNCHANGED <<cd_name, cd_path_exists, cd_start_enabled, cd_stop_enabled,
                   cd_is_running, cd_workers, cd_queue, cd_listening,
                   cd_overlap, tm_pc, se_log>>
    /\ UNCHANGED <<corevars, fmtvars, pgvars, closevars>>

\* ServiceCard.stop_service of a systemd card (lines 444-446).
CardStopService ==
    /\ UiFree
    /\ IsSystemd(cd_name)
    /\ cd_stop_enabled
    /\ \E o \in PkexecOutcomes : pk_last' = card_service("stop_service", o)
    /\ UNCHANGED <<cd_name, cd_path_exists, cd_start_enabled, cd_stop_enabled,
                   cd_is_running, cd_workers, cd_queue, cd_listening,
                   cd_overlap, tm_pc, se_log>>
    /\ UNCHANGED <<corevars, fmtvars, pgvars, closevars>>

CardNext ==
    \/ ClickStart \/ ClickStop \/ WorkerSpawn \/ WorkerSpawnFails
    \/ ChildListens \/ WorkerEnds \/ CardDeliver \/ PollerUpdate
    \/ StartSystemdServices \/ StartEverything \/ TimerManual
    \/ TimerLibrechat \/ StopAll \/ CardStartService \/ CardStopService

\* ------------------------------------------------------------------------
\* PgAdminTab and PgAdminManager.run
\* ------------------------------------------------------------------------
\* Bound on the PgAdminManager objects created.
MaxPgStarts == 3

\* The largest number of "Already Running" warnings followed.
MaxPgWarnings == 1

Output(text) == [sig |-> "output_ready", text |-> text, is_running |-> FALSE]

Status(is_running) ==
    [sig |-> "status_updated", text |-> "", is_running |-> is_running]

\* The emissions of lines 45-47, the script being absent.
MissingScriptSignalsNoStatus ==
    <<Output("not_found"), Output("install_hint")>>

MissingScriptSignals ==
    <<Output("not_found"), Output("install_hint"), Status(FALSE)>>

\* QThread.isRunning() of the manager.
PgIsRunning == pg_thread \in {"started", "reading"}

\* The test of start_pgadmin (line 843): there is a manager and its thread is
\* running.
AlreadyRunningIgnored(manager, is_running) == FALSE

AlreadyRunning(manager, is_running) == manager # "none" /\ is_running

PgInit ==
    /\ pg_script_exists \in BOOLEAN
    /\ pg_thread = "none"
    /\ pg_child = "none"
    /\ pg_spawned = 0
    /\ pg_url_seen = FALSE
    /\ pg_status_emits = 0
    /\ pg_queue = <<>>
    /\ pg_console = <<>>
    /\ pg_start_enabled = TRUE
    /\ pg_stop_enabled = FALSE
    /\ pg_open_enabled = FALSE
    /\ pg_starts = 0
    /\ pg_running = 0
    /\ pg_warnings = 0

PgIdle ==
    /\ PgInit
    /\ pg_script_exists

\* PgAdminManager.stop followed by wait() (lines 89-97, 860, 1219-1220), the
\* thread running: the process, if there is one, is terminated (killed after
\* 5 seconds) and run() goes on to its end.  Called before run() reached its
\* first statement, stop() finds no process and run() goes through in full.
PgStopAndWait ==
    CASE pg_thread = "reading" ->
           /\ pg_child' = "exited"
           /\ pg_queue' = Append(pg_queue, Status(FALSE))
           /\ pg_status_emits' = pg_status_emits + 1
           /\ pg_thread' = "finished"
           /\ pg_running' = pg_running - 1
           /\ UNCHANGED pg_spawned
      [] pg_thread = "started" /\ ~pg_script_exists ->
           /\ pg_queue' = pg_queue \o MissingScriptSignals
           /\ pg_status_emits' = pg_status_emits + 1
           /\ pg_thread' = "finished"
           /\ pg_running' = pg_running - 1
           /\ UNCHANGED <<pg_child, pg_spawned>>
      [] pg_thread = "started" /\ pg_script_exists ->
           /\ pg_child' = "exited"
           /\ pg_spawned' = pg_spawned + 1
           /\ pg_queue' = Append(pg_queue, Status(FALSE))
           /\ pg_status_emits' = pg_status_emits + 1
           /\ pg_thread' = "finished"
           /\ pg_running' = pg_running - 1
      [] OTHER ->
           UNCHANGED <<pg_thread, pg_child, pg_spawned, pg_queue,
                       pg_status_emits, pg_running>>

\* PgAdminTab.start_pgadmin (lines 841-854).
PgClickStart ==
    /\ UiFree
    /\ pg_start_enabled
    /\ IF AlreadyRunning(pg_thread, PgIsRunning)
       THEN /\ pg_warnings < MaxPgWarnings
            /\ pg_warnings' = pg_warnings + 1
            /\ UNCHANGED <<pg_thread, pg_child, pg_url_seen, pg_status_emits,
                           pg_console, pg_start_enabled, pg_stop_enabled,
                           pg_starts, pg_running>>
       ELSE /\ pg_starts < MaxPgStarts
            /\ pg_thread' = "started"
            /\ pg_child' = "none"
            /\ pg_url_seen' = FALSE
            /\ pg_status_emits' = 0
            /\ pg_starts' = pg_starts + 1
            /\ pg_running' = pg_running + 1
            /\ pg_start_enabled' = FALSE
            /\ pg_stop_enabled' = TRUE
            /\ pg_console' = Append(pg_console, "starting")
            /\ UNCHANGED pg_warnings
    /\ UNCHANGED <<pg_script_exists, pg_spawned, pg_queue, pg_open_enabled>>
    /\ UNCHANGED <<corevars, fmtvars, cardvars, closevars>>

\* PgAdminTab.stop_pgadmin (lines 856-868).
PgClickStop ==
    /\ UiFree
    /\ pg_stop_enabled
    /\ IF pg_thread # "none"
       THEN /\ PgStopAndWait
            /\ pg_console' = Append(pg_console, "stopped")
       ELSE UNCHANGED <<pg_thread, pg_child, pg_spawned, pg_queue,
                        pg_status_emits, pg_console, pg_running>>
    /\ pg_start_enabled' = TRUE
    /\ pg_stop_enabled' = FALSE
    /\ pg_open_enabled' = FALSE
    /\ UNCHANGED <<pg_script_exists, pg_url_seen, pg_starts, pg_warnings>>
    /\ UNCHANGED <<corevars, fmtvars, cardvars, closevars>>

\* PgAdminManager.run, the script being absent (lines 44-48).
PgRunMissing ==
    /\ pg_thread = "started"
    /\ ~pg_script_exists
    /\ pg_queue' = pg_queue \o MissingScriptSignals
    /\ pg_status_emits' =
           pg_status_emits
           + Cardinality({i \in 1..Len(MissingScriptSignals) :
                             MissingScriptSignals[i].sig = "status_updated"})
    /\ pg_thread' = "finished"
    /\ UNCHANGED <<pg_script_exists, pg_child, pg_spawned, pg_url_seen,
                   pg_console, pg_start_enabled, pg_stop_enabled,
                   pg_open_enabled, pg_starts>>
    /\ pg_running' = pg_running - 1
    /\ UNCHANGED pg_warnings
    /\ UNCHANGED <<corevars, fmtvars, cardvars, closevars>>

\* PgAdminManager.run: Popen succeeds (lines 50-60).
PgRunSpawn ==
    /\ pg_thread = "started"
    /\ pg_script_exists
    /\ pg_child' = "running"
    /\ pg_spawned' = pg_spawned + 1
    /\ pg_thread' = "reading"
    /\ UNCHANGED <<pg_script_exists, pg_url_seen, pg_status_emits, pg_queue,
                   pg_console, pg_start_enabled, pg_stop_enabled,
                   pg_open_enabled, pg_starts>>
    /\ UNCHANGED <<pg_running, pg_warnings>>
    /\ UNCHANGED <<corevars, fmtvars, cardvars, closevars>>

\* PgAdminManager.run: Popen raises (lines 84-87).
PgRunSpawnFails ==
    /\ pg_thread = "started"
    /\ pg_script_exists
    /\ pg_queue' = pg_queue \o <<Output("error_starting"), Status(FALSE)>>
    /\ pg_status_emits' = pg_status_emits + 1
    /\ pg_thread' = "finished"
    /\ UNCHANGED <<pg_script_exists, pg_child, pg_spawned, pg_url_seen,
                   pg_console, pg_start_enabled, pg_stop_enabled,
                   pg_open_enabled, pg_starts>>
    /\ pg_running' = pg_running - 1
    /\ UNCHANGED pg_warnings
    /\ UNCHANGED <<corevars, fmtvars, cardvars, closevars>>

\* PgAdminManager.run reads the line that carries the server URL (63-75).
PgRunUrlLine ==
    /\ pg_thread = "reading"
    /\ pg_child = "running"
    /\ ~pg_url_seen
    /\ pg_url_seen' = TRUE
    /\ pg_queue' = pg_queue \o <<Output("line"), Status(TRUE)>>
    /\ UNCHANGED <<pg_script_exists, pg_thread, pg_child, pg_spawned,
                   pg_status_emits, pg_console, pg_start_enabled,
                   pg_stop_enabled, pg_open_enabled, pg_starts>>
    /\ UNCHANGED <<pg_running, pg_warnings>>
    /\ UNCHANGED <<corevars, fmtvars, cardvars, closevars>>

\* The pgAdmin process ends by itself.
PgChildExits ==
    /\ pg_child = "running"
    /\ pg_child' = "exited"
    /\ UNCHANGED <<pg_script_exists, pg_thread, pg_spawned, pg_url_seen,
                   pg_status_emits, pg_queue, pg_console, pg_start_enabled,
                   pg_stop_enabled, pg_open_enabled, pg_starts>>
    /\ UNCHANGED <<pg_running, pg_warnings>>
    /\ UNCHANGED <<corevars, fmtvars, cardvars, closevars>>

\* PgAdminManager.run after the end of the output (lines 80-82).
PgRunEnd ==
    /\ pg_thread = "reading"
    /\ pg_child = "exited"
    /\ pg_queue' = Append(pg_queue, Status(FALSE))
    /\ pg_status_emits' = pg_status_emits + 1
    /\ pg_thread' = "finished"
    /\ UNCHANGED <<pg_script_exists, pg_child, pg_spawned, pg_url_seen,
                   pg_console, pg_start_enabled, pg_stop_enabled,
                   pg_open_enabled, pg_starts>>
    /\ pg_running' = pg_running - 1
    /\ UNCHANGED pg_warnings
    /\ UNCHANGED <<corevars, fmtvars, cardvars, closevars>>

\* The UI thread delivers the oldest queued signal of the manager:
\* append_console (lines 894-898) or on_status_updated (lines 870-884).
PgDeliver ==
    /\ UiFree
    /\ pg_queue # <<>>
    /\ pg_queue' = Tail(pg_queue)
    /\ LET s == Head(pg_queue) IN
       CASE s.sig = "output_ready" ->
              /\ pg_console' = Append(pg_console, s.text)
              /\ UNCHANGED <<pg_start_enabled, pg_stop_enabled,
                             pg_open_enabled>>
         [] s.sig = "status_updated" /\ s.is_running ->
              /\ pg_open_enabled' = TRUE
              /\ UNCHANGED <<pg_console, pg_start_enabled, pg_stop_enabled>>
         [] OTHER ->
              /\ pg_start_enabled' = TRUE
              /\ pg_stop_enabled' = FALSE
              /\ pg_open_enabled' = FALSE
              /\ UNCHANGED pg_console
    /\ UNCHANGED <<pg_script_exists, pg_thread, pg_child, pg_spawned,
                   pg_url_seen, pg_status_emits, pg_starts>>
    /\ UNCHANGED <<pg_running, pg_warnings>>
    /\ UNCHANGED <<corevars, fmtvars, cardvars, closevars>>

PgNext ==
    \/ PgClickStart \/ PgClickStop \/ PgRunMissing \/ PgRunSpawn
    \/ PgRunSpawnFails \/ PgRunUrlLine \/ PgChildExits \/ PgRunEnd
    \/ PgDeliver

\* ------------------------------------------------------------------------
\* LibreChatDashboard.closeEvent
\* ------------------------------------------------------------------------
CloseIdle == ce_pc = "open"

\* closeEvent up to the first wait (lines 1206-1209): system_monitor.stop().
CloseBegin ==
    /\ ce_pc = "open"
    /\ sm_running' = FALSE
    /\ ce_pc' = "wait_sys"
    /\ UNCHANGED <<cpu_history, ram_history, sm_stats, sm_pc, sm_seed,
                   cpu_measured, ram_measured, kept, kept_orig, kept_mutated>>
    /\ UNCHANGED <<svcvars, cpvars, stopvars, fmtvars, cardvars, pgvars>>

\* system_monitor.wait() returns, the thread having ended, and
\* service_monitor.stop() is called (lines 1209-1214).
CloseWaitSys ==
    /\ ce_pc = "wait_sys"
    /\ sm_pc \in {"done", "crashed"}
    /\ svc_running' = FALSE
    /\ ce_pc' = "wait_svc"
    /\ UNCHANGED <<previous_status, svc_pc, svc_i, tick_names, last, step_logs,
                   step_emits, step_pid_failed, step_gap, scen_obs,
                   scen_fetches, scen_gap, man_obs>>
    /\ UNCHANGED <<sysvars, cpvars, stopvars, fmtvars, cardvars, pgvars>>

\* service_monitor.wait() returns; pgAdmin is stopped if its thread is
\* running; the event is accepted (lines 1214-1222).
CloseAccept ==
    /\ ce_pc = "wait_svc"
    /\ svc_pc \in {"done", "crashed"}
    /\ IF PgIsRunning
       THEN PgStopAndWait
       ELSE UNCHANGED <<pg_thread, pg_child, pg_spawned, pg_queue,
                        pg_status_emits, pg_running>>
    /\ ce_pc' = "accepted"
    /\ UNCHANGED <<pg_script_exists, pg_url_seen, pg_console, pg_start_enabled,
                   pg_stop_enabled, pg_open_enabled, pg_starts, pg_warnings>>
    /\ UNCHANGED <<corevars, fmtvars, cardvars>>

\* The pgAdmin starts followed before the window is closed.
MaxCloseStarts == 2

\* start_pgadmin while the window is open.
ClosePgStart ==
    /\ pg_starts < MaxCloseStarts
    /\ PgClickStart

\* The window is closed at any moment of the launches; the pollers are between
\* two iterations.
CloseNext ==
    \/ CloseBegin \/ CloseWaitSys \/ CloseAccept \/ SysExit \/ SvcExit
    \/ ClickStart \/ ClickStop \/ WorkerSpawn \/ WorkerSpawnFails
    \/ ChildListens \/ WorkerEnds \/ CardDeliver \/ PollerUpdate
    \/ ClosePgStart \/ PgClickStop \/ PgRunSpawn \/ PgRunSpawnFails
    \/ PgRunUrlLine \/ PgChildExits \/ PgRunEnd \/ PgDeliver

UiIdle == FmtIdle /\ CardIdle /\ PgIdle /\ CloseIdle

\* ------------------------------------------------------------------------
\* Specifications
\* ------------------------------------------------------------------------
InitSys == SysInit /\ SvcInit /\ CpIdle /\ StopIdle /\ UiIdle
SpecSys == InitSys /\ [][SysNext]_vars

InitSvc == SysIdle /\ SvcInit /\ CpIdle /\ StopIdle /\ UiIdle
SpecSvc == InitSvc /\ [][SvcNext]_vars

InitCp == SysIdle /\ SvcInit /\ CpInit /\ StopIdle /\ UiIdle
SpecCp == InitCp /\ [][CpNext]_vars

CoreIdle == SysIdle /\ SvcInit /\ CpIdle /\ StopIdle

InitFmt == CoreIdle /\ FmtInit /\ CardIdle /\ PgIdle /\ CloseIdle
SpecFmt == InitFmt /\ [][FmtNext]_vars

\* The two pollers.  They share no state, so each is followed from its
\* construction while the other has been stopped before its first iteration
\* (stop() and the loop test are enabled from construction on).
SysStopped ==
    /\ sm_running = FALSE
    /\ cpu_history = <<>>
    /\ ram_history = <<>>
    /\ sm_stats = NoStats
    /\ sm_pc = "done"
    /\ sm_seed = 0
    /\ cpu_measured = <<>>
    /\ ram_measured = <<>>
    /\ kept = NoKept
    /\ kept_orig = NoOrig
    /\ kept_mutated = FALSE

SvcStopped ==
    /\ svc_running = FALSE
    /\ previous_status = [s \in SystemdSet \cup ManualSet |-> None]
    /\ svc_pc = "done"
    /\ svc_i = 1
    /\ tick_names = <<>>
    /\ last = NoRecord
    /\ step_logs = <<>>
    /\ step_emits = <<>>
    /\ step_pid_failed = FALSE
    /\ step_gap = None
    /\ scen_obs = <<>>
    /\ scen_fetches = <<>>
    /\ scen_gap = "clear"
    /\ man_obs = <<>>

InitPollers ==
    /\ \/ SysInit /\ SvcStopped
       \/ SysStopped /\ SvcInit
    /\ CpIdle /\ StopIdle /\ UiIdle

\* The threads of the two pollers and the callers of their stop(), on a host
\* whose units are up, down or failed (the other queries answer or fail in
\* every way they can).
PollersNext ==
    \/ SysLoopTop \/ SysTick \/ SysTickFails \/ SysExit \/ SysStop
    \/ SvcLoopTop \/ SvcExit \/ SystemdStepAnswered \/ ProcessStep
    \/ SvcSleep \/ SvcStop

\* Each external call returns, the threads are scheduled, and nobody has to
\* call stop().
PollersFairness ==
    /\ WF_vars(SysLoopTop)
    /\ WF_vars(SysTick)
    /\ WF_vars(SysExit)
    /\ WF_vars(SvcLoopTop)
    /\ WF_vars(SystemdStepAnswered)
    /\ WF_vars(ProcessStep)
    /\ WF_vars(SvcSleep)
    /\ WF_vars(SvcExit)

SpecPollers == InitPollers /\ [][PollersNext]_vars /\ PollersFairness

InitCard == CoreIdle /\ FmtIdle /\ CardInit /\ PgIdle /\ CloseIdle
SpecCard == InitCard /\ [][CardNext]_vars

InitPg == CoreIdle /\ FmtIdle /\ CardIdle /\ PgInit /\ CloseIdle
SpecPg == InitPg /\ [][PgNext]_vars

InitClose == CoreIdle /\ FmtIdle /\ CardIdle /\ PgIdle /\ CloseIdle
SpecClose == InitClose /\ [][CloseNext]_vars

InitStop == SysIdle /\ SvcInit /\ CpIdle /\ StopInit /\ UiIdle
SpecStop == InitStop /\ [][StopNext]_vars
SpecStopFair == InitStop /\ [][StopNext]_vars /\ StopFairness

\* ------------------------------------------------------------------------
\* Claims
\* ------------------------------------------------------------------------
\* C3: after n sampling ticks each history (and the copy carried by the last
\* emitted snapshot) holds exactly min(n, 60) samples, never more than 60, in
\* arrival order, and equals the last 60 samples measured (the oldest sample
\* is the one evicted at capacity).
C3_HistoryIsLast60 ==
    /\ Len(cpu_history) <= history_size
    /\ Len(ram_history) <= history_size
    /\ Len(cpu_history) = Min(Len(cpu_measured), history_size)
    /\ Len(ram_history) = Min(Len(ram_measured), history_size)
    /\ cpu_history = LastN(cpu_measured, history_size)
    /\ ram_history = LastN(ram_measured, history_size)
    /\ Len(cpu_measured) > 0 =>
          /\ Items(sm_stats.cpu_history, cpu_history)
                 = LastN(cpu_measured, history_size)
          /\ Items(sm_stats.ram_history, ram_history)
                 = LastN(ram_measured, history_size)

\* At least two samples have been evicted and the buffer is full.
C3_Witness ==
    /\ Len(cpu_measured) >= history_size + 2
    /\ Len(cpu_history) = history_size
    /\ cpu_history[1] = cpu_measured[Len(cpu_measured) - history_size + 1]
    /\ cpu_history[1] # cpu_measured[1]
    /\ sm_stats.ram_history.items[history_size]
           = ram_measured[Len(ram_measured)]

\* The last step was the loop body for a systemd-managed service.
SystemdStepped ==
    /\ svc_pc' # "crashed"
    /\ tick_names' # tick_names
    /\ tick_names' # <<>>
    /\ last'.name \in SystemdSet

\* logs_ready is emitted in a step exactly when the service is observed as
\* "active" and the status recorded for it before was not "active": once, for
\* that service.
EdgeTriggered ==
    SystemdStepped =>
        /\ (step_logs' # <<>>) <=>
              (/\ last'.stats.status = "active"
               /\ previous_status[last'.name] # "active")
        /\ Len(step_logs') <= 1
        /\ \A k \in 1..Len(step_logs') : step_logs'[k].name = last'.name
        /\ previous_status'[last'.name] = last'.stats.status

\* The cumulative logs_ready counts of ScenService along the scenario.
ScenarioCounts(counts) ==
    scen_obs # OffScenario =>
        scen_fetches = SubSeq(counts, 1, Len(scen_obs))

\* C1 (as amended): for every systemd-managed service, logs are fetched at a
\* tick exactly when the tick's status is "active" and the status recorded at
\* the previous tick was not "active", once per such edge; along the status
\* sequence inactive, active, active, inactive, active the cumulative number of
\* fetches is 0, 1, 1, 1, 2.
C1_EdgeTriggeredFetch ==
    [][EdgeTriggered /\ ScenarioCounts(<<0, 1, 1, 1, 2>>)']_vars

\* C1 as stated: the same, with the cumulative counts 1, 1, 1, 1, 2.
C1_AsStated ==
    [][EdgeTriggered /\ ScenarioCounts(<<1, 1, 1, 1, 2>>)']_vars

\* The fifth tick of the scenario has just fetched the logs a second time.
C1_Witness ==
    /\ scen_obs = Scenario
    /\ scen_fetches = <<0, 1, 1, 1, 2>>
    /\ last.name = ScenService
    /\ Len(step_logs) = 1

\* The last step observed ScenService and emitted logs_ready for it.
ScenFetched ==
    /\ last.name = ScenService
    /\ step_logs # <<>>

\* C2 (as amended): between any two log fetches for the same service there is
\* a tick at which the service was observed as something other than "active"
\* (inactive, failed, unknown or any other state): repeated "active"
\* observations alone never refetch.
C2_NoRefetchWhileActive ==
    ScenFetched => step_gap # "active_only"

\* C2 as stated: between any two log fetches for the same service there is a
\* tick at which the service was observed as "inactive".
C2_AsStated ==
    ScenFetched => step_gap = "clear"

\* Logs were fetched again after a gap without any "inactive" observation.
C2_Witness ==
    /\ ScenFetched
    /\ step_gap = "other_seen"
    /\ scen_gap = "active_only"

\* C5: whatever queries fail, every tick emits a record for every tracked
\* service, in order, and no failure ends run(): the thread only ends at the
\* top of the loop after stop().
C5_FailureContained ==
    /\ svc_pc # "crashed"
    /\ svc_pc = "loop" => tick_names = [k \in 1..(svc_i - 1) |-> TrackedNames[k]]
    /\ svc_pc = "sleep" => tick_names = [k \in 1..NumTracked |-> TrackedNames[k]]
    /\ svc_pc = "done" => ~svc_running

\* The is-active query of the first service failed in a tick that went on to
\* report all six services.
C5_Witness ==
    /\ svc_pc = "sleep"
    /\ previous_status[SystemdServices[1]] = "unknown"
    /\ Len(tick_names) = NumTracked
    /\ last.name = "rag_api"

\* C7 (as stated): a record with status "active" carries a pid, unless the
\* process had gone when its pid was asked for (MainPID=0 was reported).
C7_ActiveHasPid ==
    (last.name # None /\ last.stats.status = "active") =>
        \/ last.stats.pid # NullPid
        \/ (last.name \in SystemdSet /\ ~step_pid_failed)

\* C8 (as stated): the status of every emitted record is one of the four
\* values active, inactive, failed, unknown.
C8_StatusInFourValues ==
    last.name # None =>
        last.stats.status \in {"active", "inactive", "failed", "unknown"}

\* ---- check_process on a listener table
\* The index of the manual process cp_rec is about.
CpIndex == CHOOSE i \in 1..Len(ManualProcesses) :
               ManualProcesses[i].name = cp_rec.name

\* The command line contains the marker, whatever the case of its letters.
CmdlineHasMarker(cmdline, marker) ==
    \/ marker = "node" /\ cmdline = <<"/usr/bin/node", "api/server/index.js">>
    \/ marker = "uvicorn"
         /\ cmdline = <<"/venv/bin/python", "/venv/bin/UVICORN", "main:app">>

\* Connection k of the table is a listener on the port of manual process i
\* owned by a process whose command line contains the marker of i.
MatchingListener(i, k) ==
    /\ world.ok
    /\ k \in 1..Len(world.conns)
    /\ world.conns[k].port = ManualProcesses[i].port
    /\ world.conns[k].status = "LISTEN"
    /\ world.conns[k].pid # NullPid
    /\ world.procs[world.conns[k].pid].alive
    /\ CmdlineHasMarker(world.procs[world.conns[k].pid].cmdline,
                        ManualProcesses[i].cmd_filter)

\* C4: a manual process is classified active only if some LISTEN socket on
\* its port is owned by a process whose command line contains its marker
\* (case-insensitively), and when such a listener exists the record is active
\* with the pid of such an owner.
C4_PortAndMarkerMatch ==
    cp_rec.name # None =>
        LET matching == {k \in 1..Len(world.conns) : MatchingListener(CpIndex, k)}
        IN  /\ (cp_rec.stats.status = "active") <=> (matching # {})
            /\ cp_rec.stats.status = "active" =>
                  \E k \in matching : cp_rec.stats.pid = world.conns[k].pid
            /\ cp_rec.stats.status \in {"active", "inactive"}
            /\ cp_rec.stats.is_running = (cp_rec.stats.status = "active")

\* rag_api is classified by its second listener, owned by UVICORN, after a
\* first listener on port 8000 owned by a process without the marker.
C4_Witness ==
    /\ cp_rec.name = "rag_api"
    /\ cp_rec.stats.status = "active"
    /\ Len(world.conns) = 2
    /\ world.conns[1].port = 8000
    /\ world.conns[1].status = "LISTEN"
    /\ world.conns[1].pid # NullPid
    /\ world.conns[1].pid # cp_rec.stats.pid
    /\ world.procs[world.conns[1].pid].alive
    /\ world.procs[world.conns[1].pid].cmdline = <<"nginx">>
    /\ cp_rec.stats.pid = world.conns[2].pid

\* Some query check_process makes for manual process i fails on this table:
\* the listener enumeration, or a process-table read for a listener on the
\* port of i.
CpQueryFails(i) ==
    \/ ~world.ok
    \/ \E k \in 1..Len(world.conns) :
          /\ world.conns[k].port = ManualProcesses[i].port
          /\ world.conns[k].status = "LISTEN"
          /\ world.conns[k].pid # NullPid
          /\ ~world.procs[world.conns[k].pid].alive

\* C6 (as stated), for the externally-launched services: when a query fails,
\* the record has status "unknown" and zeroed metrics.
C6_FailureGivesUnknown ==
    (cp_rec.name # None /\ CpQueryFails(CpIndex)) =>
        /\ cp_rec.stats.status = "unknown"
        /\ cp_rec.stats.cpu_percent = 0
        /\ cp_rec.stats.memory_mb = 0

\* ---- stop paths and launch workers
\* C9: on every stop path terminate() comes first; kill() is called only after
\* it and only when the process was still running as the 5-second wait
\* expired; a process that exits within the grace period is not killed, and
\* one that has not exited when the wait expires is killed.
C9_GracefulThenForceful ==
    /\ \A k \in 1..Len(sig_log) :
          sig_log[k] = "kill" => (k > 1 /\ sig_log[k - 1] = "terminate")
    /\ st_call.killed => (st_call.terminated /\ st_call.expired)
    /\ st_call.expired =>
          /\ st_call.terminated
          /\ st_call.waited = GraceSecs
          /\ st_call.alive_at_expiry
    /\ st_pc = "expired" => st_call.expired
    /\ (st_pc = "done" /\ st_call.terminated /\ ~st_call.expired) =>
          (ch_state = "exited" /\ ~st_call.killed /\ st_call.waited <= GraceSecs)
    /\ (st_pc = "done" /\ st_call.expired) => st_call.killed
    /\ st_pc = "grace" => (st_call.terminated /\ st_grace <= GraceSecs)

\* A child that ignores SIGTERM was killed after the full grace wait.
C9_Witness ==
    /\ st_pc = "done"
    /\ ~ch_responsive
    /\ sig_log = <<"terminate", "kill">>
    /\ st_call.waited = GraceSecs
    /\ ch_state = "exited"
    /\ ch_code = "-9"

FinishedCount == CountSig(wk_events, "process_finished")

\* C10 (as stated): every launch through ProcessRunner notifies "finished"
\* exactly once: never twice, once when run() ends (with -1 when the spawn
\* fails), and, once stop had to kill the child, eventually once.
C10_FinishedExactlyOnce ==
    /\ [](st_path = "runner" => FinishedCount <= 1)
    /\ []((st_path = "runner" /\ wk_pc = "done") => FinishedCount = 1)
    /\ ((st_path = "runner" /\ st_call.killed) ~> (FinishedCount = 1))

C18_SnapshotsAreCopies ==
    /\ (kept # NoKept /\ ~kept_mutated) =>
          /\ Items(kept.cpu_history, cpu_history) = kept_orig.cpu_history
          /\ Items(kept.ram_history, ram_history) = kept_orig.ram_history
    /\ kept # NoKept =>
          /\ kept_orig.cpu_history = LastN(SubSeq(cpu_measured, 1, kept.tick),
                                           history_size)
          /\ kept_orig.ram_history = LastN(SubSeq(ram_measured, 1, kept.tick),
                                           history_size)
    /\ cpu_history = LastN(cpu_measured, history_size)
    /\ ram_history = LastN(ram_measured, history_size)
    /\ Len(cpu_measured) > 0 =>
          /\ Items(sm_stats.cpu_history, cpu_history) = cpu_history
          /\ Items(sm_stats.ram_history, ram_history) = ram_history

\* The consumer modified a snapshot it held, and the sampler went on for at
\* least two ticks, evicting samples the held snapshot still shows.
C18_Witness ==
    /\ kept # NoKept
    /\ kept_mutated
    /\ kept.cpu_history.items # kept_orig.cpu_history
    /\ kept.tick >= history_size
    /\ Len(cpu_measured) >= kept.tick + 2
    /\ sm_stats.cpu_history.items # kept_orig.cpu_history

\* C13: a non-negative duration with d whole days, h remaining hours and m
\* remaining minutes renders, at both formatting sites, as "{d}d {h}h" when
\* d > 0, otherwise as "{h}h {m}m" when h > 0, otherwise as "{m}m"; 90 minutes
\* is "1h 30m", 25 hours is "1d 1h" and 45 seconds is "0m".
C13_UptimeFormat ==
    (fmt_path # None /\ fmt_in >= 0) =>
        LET d == fmt_in \div 86400
            h == (fmt_in \div 3600) % 24
            m == (fmt_in \div 60) % 60
        IN  /\ d > 0 => fmt_out = [fmt |-> "dh", a |-> d, b |-> h]
            /\ (d = 0 /\ h > 0) => fmt_out = [fmt |-> "hm", a |-> h, b |-> m]
            /\ (d = 0 /\ h = 0) => fmt_out = [fmt |-> "m", a |-> m, b |-> 0]
            /\ fmt_in = 90 * 60 => fmt_out = [fmt |-> "hm", a |-> 1, b |-> 30]
            /\ fmt_in = 25 * 3600 => fmt_out = [fmt |-> "dh", a |-> 1, b |-> 1]
            /\ fmt_in = 45 => fmt_out = [fmt |-> "m", a |-> 0, b |-> 0]

\* Twenty-five hours were formatted for an externally-launched process.
C13_Witness ==
    /\ fmt_path = "process"
    /\ fmt_in = 25 * 3600
    /\ fmt_out = [fmt |-> "dh", a |-> 1, b |-> 1]

\* C14: each poller reads its stop flag at the top of its loop and nowhere
\* else.  Once stop() was called no new iteration begins; an iteration that
\* was in progress is not interrupted (run() is left only from the loop test,
\* with the flag cleared, or by an exception of its own) and emits its
\* notifications; and, its external calls returning, run() ends.
C14_CooperativeStop ==
    /\ [][ /\ (~sm_running /\ sm_pc' = "body") => sm_pc = "body"
           /\ (sm_pc' = "done" /\ sm_pc # "done") =>
                  (sm_pc = "loop" /\ ~sm_running)
           /\ (~sm_running /\ sm_pc # "body") =>
                  (sm_stats' = sm_stats /\ cpu_measured' = cpu_measured)
           /\ (~svc_running /\ svc_pc' = "loop") => svc_pc = "loop"
           /\ (svc_pc' = "done" /\ svc_pc # "done") =>
                  (svc_pc = "top" /\ ~svc_running)
           /\ (~svc_running /\ svc_pc \notin {"loop"}) =>
                  (last' = NoRecord /\ step_logs' = <<>>
                      /\ tick_names' = tick_names)
           /\ svc_pc = "sleep" =>
                  tick_names = [k \in 1..NumTracked |-> TrackedNames[k]]
         ]_vars
    /\ (~sm_running) ~> (sm_pc \in {"done", "crashed"})
    /\ (~svc_running) ~> (svc_pc = "done")

\* stop() was called while a reconciliation tick was in progress, and the tick
\* went on to report all six services before the flag is read again.
C14_Witness ==
    /\ ~svc_running
    /\ svc_pc = "sleep"
    /\ Len(tick_names) = NumTracked
    /\ sm_pc = "done"

\* C17 (as stated): a record never carries one live metric and one zeroed
\* metric: when a read fails because the process has gone, cpu_percent and
\* memory are both 0.  (Live readings are never 0 here.)
C17_RaceZeroesMetrics ==
    last.name # None =>
        (last.stats.cpu_percent = 0 <=> last.stats.memory_mb = 0)

\* C11 (as stated): the card never has two launch workers with a live child,
\* and start_process never creates a worker while an earlier worker of the
\* card is still running.
C11_OneWorkerPerService ==
    /\ Cardinality({w \in 1..Len(cd_workers) : cd_workers[w] = "running"}) <= 1
    /\ ~cd_overlap

\* C12 (as stated): the Start button of the card is never enabled while a
\* launch worker of the card is running.
C12_StartDisabledWhileLaunching ==
    (\E w \in 1..Len(cd_workers) : IsRunningThread(cd_workers[w]))
        => ~cd_start_enabled

\* C19 (as stated): a pkexec invocation that failed or was denied shows
\* exactly one message box and raises nothing out of its handler.
C19_FailureNoticedOnce ==
    (pk_last.handler # None /\ pk_last.outcome \in PkexecOutcomes \ {"exit0"}) =>
        /\ Len(pk_last.notices) = 1
        /\ ~pk_last.raised

\* C15 (as stated): when closeEvent has accepted the event both pollers have
\* ended and no process spawned by the dashboard is left running without
\* having been asked to terminate: neither pgAdmin nor the child of any
\* launch worker of a service card.
C15_ShutdownStopsEverything ==
    ce_pc = "accepted" =>
        /\ sm_pc \in {"done", "crashed"}
        /\ svc_pc \in {"done", "crashed"}
        /\ pg_child # "running"
        /\ \A w \in 1..Len(cd_workers) : ~IsRunningThread(cd_workers[w])

\* The console texts of kind k.
ConsoleCount(k) ==
    Cardinality({i \in 1..Len(pg_console) : pg_console[i] = k})

\* C20: the pgAdmin script being absent, no process is ever spawned; every
\* run reports the problem and emits status_updated(False, "") exactly once;
\* and once the run has ended and its signals are delivered, the problem is on
\* the console once per start, Start is enabled and Stop and Open in Browser
\* are disabled.
C20_MissingPgAdmin ==
    ~pg_script_exists =>
        /\ pg_spawned = 0
        /\ pg_child = "none"
        /\ ~pg_url_seen
        /\ pg_thread = "started" => pg_status_emits = 0
        /\ pg_thread = "finished" => pg_status_emits = 1
        /\ (pg_thread = "finished" /\ pg_queue = <<>>) =>
              /\ pg_start_enabled
              /\ ~pg_stop_enabled
              /\ ~pg_open_enabled
              /\ ConsoleCount("not_found") = pg_starts
              /\ ConsoleCount("install_hint") = pg_starts

\* pgAdmin was started twice without its script, and both runs have ended
\* with their signals delivered.
C20_Witness ==
    /\ ~pg_script_exists
    /\ pg_starts = 2
    /\ pg_thread = "finished"
    /\ pg_queue = <<>>
    /\ ConsoleCount("not_found") = 2
    /\ pg_start_enabled

\* ---- ServiceMonitor: the two loops of a tick
\* C21: for the externally-launched services librechat and rag_api no
\* logs_ready notification is ever emitted, whatever their status sequence
\* (inactive to active transitions included), and previous_status never gains
\* an entry for them.
C21_NoFetchForManual ==
    /\ \A n \in ManualSet : previous_status[n] = None
    /\ \A k \in 1..Len(step_logs) : step_logs[k].name \in SystemdSet
    /\ \A k \in 1..Len(step_emits) :
           step_emits[k].sig = "logs_ready" => step_emits[k].name \in SystemdSet
    /\ last.name \in ManualSet =>
           /\ step_logs = <<>>
           /\ step_emits = <<[sig |-> "status_updated", name |-> last.name]>>

\* librechat was reported inactive at one tick and active at the next, and the
\* step that reported it active emitted no logs.
C21_Witness ==
    /\ man_obs = ManScenario
    /\ last.name = ManScenService
    /\ last.stats.status = "active"
    /\ step_logs = <<>>
    /\ previous_status[ManScenService] = None

\* The order in which a tick reports the tracked services.
TickOrder ==
    <<"mongodb", "postgresql", "meilisearch", "ollama", "librechat", "rag_api">>

\* C23: each completed tick emits exactly one status record per tracked
\* service name, in the order mongodb, postgresql, meilisearch, ollama,
\* librechat, rag_api, one service at a time, and sleeps only after the sixth
\* record.
C23_OneRecordPerServiceInOrder ==
    /\ Len(tick_names) <= Len(TickOrder)
    /\ tick_names = SubSeq(TickOrder, 1, Len(tick_names))
    /\ last.name # None => last.name = tick_names[Len(tick_names)]
    /\ svc_pc = "loop" => /\ Len(tick_names) < Len(TickOrder)
                          /\ svc_i = Len(tick_names) + 1
    /\ svc_pc = "sleep" => tick_names = TickOrder
    /\ Len(step_emits) > 0 =>
           /\ step_emits[Len(step_emits)].sig = "status_updated"
           /\ \A k \in 1..Len(step_emits) : step_emits[k].name = last.name

\* The second tick has reported its six services and the thread sleeps.
C23_Witness ==
    /\ svc_pc = "sleep"
    /\ tick_names = TickOrder
    /\ last.name = "rag_api"
    /\ Len(scen_obs) = 2
    /\ scen_obs # OffScenario

\* A pass of the systemd loop for a service with no status recorded yet.
FirstObservation ==
    /\ SystemdStepped
    /\ previous_status[last'.name] = None

\* C27: at the first tick (no previous status recorded) a systemd-managed
\* service observed as "active" triggers exactly one log fetch and a service
\* observed as anything else triggers none; at every tick previous_status of
\* the service is set to the observed status, whether or not logs were fetched
\* and whether or not the journal query failed.
C27_FirstTickFetchesActive ==
    [][/\ SystemdStepped => previous_status'[last'.name] = last'.stats.status
       /\ FirstObservation =>
            /\ Len(step_logs') = IF last'.stats.status = "active" THEN 1 ELSE 0
            /\ \A k \in 1..Len(step_logs') : step_logs'[k].name = last'.name]_vars

\* At the first tick mongodb was observed active, the journal query failed,
\* the logs notification was emitted all the same and the status was recorded.
C27_Witness ==
    /\ last.name = "mongodb"
    /\ last.stats.status = "active"
    /\ previous_status["postgresql"] = None
    /\ previous_status["mongodb"] = "active"
    /\ Len(step_logs) = 1
    /\ step_logs[1].logs = "Could not fetch logs"

\* C28: within one pass for a systemd-managed service the logs_ready
\* notification of a transition to active is emitted before the status_updated
\* record that reports the service as active.
C28_LogsBeforeActiveRecord ==
    /\ \A j, k \in 1..Len(step_emits) :
           (/\ step_emits[j].sig = "logs_ready"
            /\ step_emits[k].sig = "status_updated") => j < k
    /\ step_logs # <<>> =>
           /\ last.stats.status = "active"
           /\ step_emits = <<[sig |-> "logs_ready", name |-> last.name],
                             [sig |-> "status_updated", name |-> last.name]>>

\* A service has just become active: both notifications were emitted.
C28_Witness ==
    /\ last.name = "postgresql"
    /\ last.stats.status = "active"
    /\ Len(step_emits) = 2
    /\ Len(step_logs) = 1

\* C29: in every status record emitted, for systemd-managed and
\* externally-launched services and every outcome of the external queries,
\* is_running is true exactly when status is "active".
C29_RunningIffActive ==
    last.name # None => (last.stats.is_running <=> last.stats.status = "active")

\* A running librechat is reported in a tick whose first is-active query
\* failed.
C29_Witness ==
    /\ last.name = "librechat"
    /\ last.stats.status = "active"
    /\ last.stats.is_running
    /\ previous_status["mongodb"] = "unknown"
    /\ previous_status["ollama"] = "failed"

\* C30: every record whose status is not "active" is fully degraded: for an
\* externally-launched service pid is null, cpu_percent and memory are 0 and
\* uptime is "N/A"; for a systemd-managed service uptime is "N/A" and, when no
\* PID was resolved, cpu_percent and memory are 0.
C30_InactiveIsDegraded ==
    (last.name # None /\ last.stats.status # "active") =>
        /\ last.stats.uptime = NA
        /\ last.name \in ManualSet =>
               /\ last.stats.pid = NullPid
               /\ last.stats.cpu_percent = 0
               /\ last.stats.memory_mb = 0
        /\ (last.name \in SystemdSet /\ last.stats.pid = NullPid) =>
               /\ last.stats.cpu_percent = 0
               /\ last.stats.memory_mb = 0

\* A failed unit without main process was reported after an inactive manual
\* service in the tick before.
C30_Witness ==
    /\ last.name = "ollama"
    /\ last.stats.status = "failed"
    /\ last.stats.pid = NullPid
    /\ last.stats.cpu_percent = 0
    /\ last.stats.uptime = NA
    /\ man_obs = <<"inactive">>

\* ---- ProcessRunner.run: the notifications of one launch
\* The positions in wk_events of the notifications of one kind.
EventsOf(sig) == {k \in 1..Len(wk_events) : wk_events[k].sig = sig}

LineEvents == {k \in 1..Len(wk_events) : wk_events[k].arg = "line"}

\* C22 (as stated): for every launch "started" is emitted at most once and
\* before any output line of the child; every line the child emits is surfaced
\* in emission order between "started" and "finished"; "finished" carrying the
\* child's exit code is the last notification of the run; and when spawning
\* fails no "started" is emitted and the run ends with an error line followed
\* by finished(-1).
C22_LaunchEventOrder ==
    st_path = "runner" =>
        /\ Cardinality(EventsOf("process_started")) <= 1
        /\ \A k \in LineEvents : \E j \in EventsOf("process_started") : j < k
        /\ \A k \in LineEvents :
               wk_events[k].line = Cardinality({j \in LineEvents : j <= k})
        /\ \A k \in EventsOf("process_finished") : k = Len(wk_events)
        /\ wk_pc = "done" =>
               /\ EventsOf("process_finished") # {}
               /\ IF EventsOf("process_started") # {}
                  THEN /\ ch_state = "exited"
                       /\ wk_events[Len(wk_events)].arg = ch_code
                       /\ LinesRead(wk_events) = ch_lines
                  ELSE wk_events = <<Emit("output_ready", "Error"),
                                     Emit("process_finished", "-1")>>

\* ---- stop requests that arrive at any moment of a launch
\* C26 (as stated): a stop request made at any point after the worker thread's
\* start(), also before the thread has spawned and recorded the child, takes
\* effect: once the stop call has returned no child runs that was not sent a
\* termination request, and eventually the child is not running, the worker
\* thread has ended and the caller's wait() on the thread has returned.
C26_StopAlwaysTakesEffect ==
    /\ []((/\ st_path # "port"
           /\ st_pc \in {"done", "joined"}
           /\ ch_state = "running") => (ch_term \/ ch_kill))
    /\ ((st_path # "port" /\ st_calls > 0)
           ~> (st_pc = "joined" /\ wk_pc = "done" /\ ch_state # "running"))

\* ---- Stop All and Start Everything
\* s is an initial part of t.
IsPrefix(s, t) == Len(s) <= Len(t) /\ s = SubSeq(t, 1, Len(s))

\* C24 (as stated): after the user confirms Stop All, every running
\* externally-launched process (also one launched by the dashboard that the
\* poller has not reported yet) is asked to stop before the batched systemd
\* stop, the systemd stops are issued in the order ollama, meilisearch,
\* postgresql, mongodb, and "All services stopped!" is shown only if every
\* service was stopped; if the user answers No, nothing is stopped.
C24_StopAllStopsEverything ==
    pk_last.handler = "stop_all" =>
        IF pk_last.reply = "No"
        THEN /\ ~pk_last.stop_requested
             /\ pk_last.issued = <<>>
             /\ pk_last.notices = <<>>
        ELSE /\ pk_last.launched_running => pk_last.stop_requested
             /\ IsPrefix(pk_last.issued,
                         <<"ollama", "meilisearch", "postgresql", "mongodb">>)
             /\ pk_last.notices = <<"information">> =>
                    pk_last.done
                        = <<"ollama", "meilisearch", "postgresql", "mongodb">>

\* C25: Start Everything runs the batched systemd start (mongodb, postgresql,
\* meilisearch, ollama, each only if the previous start succeeded) to its end
\* before rag_api's launch is requested, requests rag_api's launch before
\* librechat's, each exactly once per invocation, and "Systemd services
\* started!" is shown only when all four start commands succeeded.
C25_StartEverythingInSequence ==
    /\ IsPrefix(se_log, <<"systemd", "rag_api", "librechat">>)
    /\ tm_pc = "manual" => se_log = <<"systemd">>
    /\ tm_pc = "librechat" => se_log = <<"systemd", "rag_api">>
    /\ tm_pc = "idle" =>
           se_log \in {<<>>, <<"systemd", "rag_api", "librechat">>}
    /\ pk_last.handler = "start_systemd_services" =>
           /\ IsPrefix(pk_last.issued,
                       <<"mongodb", "postgresql", "meilisearch", "ollama">>)
           /\ IsPrefix(pk_last.done, pk_last.issued)
           /\ Len(pk_last.issued) <= Len(pk_last.done) + 1
           /\ pk_last.notices = <<"information">> =>
                  pk_last.done
                      = <<"mongodb", "postgresql", "meilisearch", "ollama">>

\* An invocation has run to its end: the four services were started, the
\* notice was shown, and the timers asked rag_api and then librechat to
\* launch, which created the worker of the librechat card.
C25_Witness ==
    /\ tm_pc = "idle"
    /\ se_log = <<"systemd", "rag_api", "librechat">>
    /\ cd_name = "librechat"
    /\ Len(cd_workers) = 1
    /\ pk_last.handler = "start_systemd_services"
    /\ pk_last.notices = <<"information">>
    /\ pk_last.done = StartServices

\* ---- the buttons of a service card
\* C31: for a card of an externally-launched service exactly one of the start
\* and stop buttons is enabled in every state reached through
\* on_process_started, on_process_finished and update_stats; after
\* update_stats(stats) start is enabled iff stats.is_running is false and stop
\* iff it is true; for a systemd-managed card update_stats changes neither
\* button.
C31_OneButtonEnabled ==
    /\ [](cd_name \in CardNames => cd_start_enabled # cd_stop_enabled)
    /\ [][PollerUpdate =>
            IF IsSystemd(cd_name)
            THEN UNCHANGED <<cd_start_enabled, cd_stop_enabled>>
            ELSE /\ cd_start_enabled' = ~cd_is_running'
                 /\ cd_stop_enabled' = cd_is_running']_vars

\* A second launch of the card is running after the first has finished, the
\* notifications of both were delivered and the poller has reported the
\* service as running: stop is enabled, start is not.
C31_Witness ==
    /\ cd_name = "rag_api"
    /\ cd_workers = <<"finished", "running">>
    /\ cd_queue = <<>>
    /\ cd_is_running
    /\ cd_stop_enabled
    /\ ~cd_start_enabled

\* ---- a second start of pgAdmin
\* C32: at most one PgAdminManager thread is running at any time, and
\* start_pgadmin invoked while the thread of the current manager is running
\* creates no manager, spawns no process and changes no button: it only shows
\* the "pgAdmin is already running" warning, whatever notifications of an
\* earlier manager were delivered before.
C32_OneManagerRunning ==
    /\ [](pg_running <= 1 /\ pg_spawned <= pg_starts)
    /\ [][PgClickStart /\ PgIsRunning =>
            /\ pg_warnings' = pg_warnings + 1
            /\ UNCHANGED <<pg_thread, pg_child, pg_spawned, pg_starts,
                           pg_running, pg_queue, pg_console,
                           pg_start_enabled, pg_stop_enabled,
                           pg_open_enabled>>]_vars

\* The second manager has been started and has emitted nothing yet, the
\* status_updated(False) of the first one was delivered after that and
\* enabled Start again, and the click on Start was answered by the warning.
C32_Witness ==
    /\ pg_starts = 2
    /\ pg_thread = "started"
    /\ pg_running = 1
    /\ pg_start_enabled
    /\ ~pg_stop_enabled
    /\ pg_warnings = 1

====
